---- MODULE Spec2Model ----
(***************************************************************************)
(* A model of dynamo-eventdb: the EventDB service (an append and query     *)
(* wrapper around one DynamoDB table with its secondary indexes) and the   *)
(* stream handler that republishes inserted events.                        *)
(*                                                                         *)
(* Strings that are only compared for equality or length are TLA+ strings. *)
(* Strings whose byte order matters (the event type and the sort key       *)
(* time_type) are sequences of one-character strings, compared in byte     *)
(* order.  An Event's time is a Date, modelled as [ms |-> n]; the stored   *)
(* record's time is the number n.                                          *)
(***************************************************************************)
EXTENDS Integers, Sequences, FiniteSets, TLC

VARIABLES
    table,             \* the DynamoDB table: a set of items, one per primary key
    idIndex,           \* the AllEventsById index: entries {id, subject, time_type}
    clock,             \* the last reading of the writer's clock, in ms
    uuids,             \* how many ids crypto.randomUUID has handed out
    lastCall,          \* what the last finished call did (a write, a lookup, a failed scan)
    pc,                \* position of the running scan: "idle", "paging" or "done"
    query,             \* the query of the running (or last) scan
    lastEvaluatedKey,  \* paginatedQuery's cursor
    validItems,        \* paginatedQuery's accumulator of parsed events
    invalidItems,      \* paginatedQuery's accumulator of raw unparseable items
    pages,             \* history: the page requests and their answers, in order
    hpc,               \* position of PublishHandler.handle: "idle", "loop" or "done"
    records,           \* the batch of stream records handle was invoked with
    position,          \* index of the record the loop of handle is at
    batchItemFailures, \* handle's result under construction
    attempts,          \* history: the records processRecord was called with, in order
    published,         \* history: the events handed to the transport and accepted
    feed,              \* the stream: the records not yet checkpointed, in order
    topic,             \* the messages the transport has accepted so far
    arg,               \* the argument the calls of a behaviour are made with, if fixed
    created,           \* history: the events Cloudevent.new made in successful calls
    previous,          \* history: the result of the last scan the caller took
    snapshot,          \* history: the table as it was at the first page request
    inflight,          \* per concurrent call: a writer's puts not yet applied, or the locals of handle
    acknowledged       \* history: what the concurrent calls that resolved wrote or returned

vars == <<table, idIndex, clock, uuids, lastCall, pc, query, lastEvaluatedKey,
          validItems, invalidItems, pages, hpc, records, position,
          batchItemFailures, attempts, published, feed, topic, arg, created,
          previous, snapshot, inflight, acknowledged>>

storeVars == <<table, idIndex>>
callerVars == <<arg, previous, inflight, acknowledged>>
writerVars == <<clock, uuids, created, callerVars>>
scanVars == <<pc, query, lastEvaluatedKey, validItems, invalidItems, pages, snapshot>>
feedVars == <<feed, topic>>
handlerVars == <<hpc, records, position, batchItemFailures, attempts, published,
                 feedVars>>

(***************************************************************************)
(* Bounds of the model.                                                    *)
(***************************************************************************)
MaxBatch == 2      \* events (or candidates) in one call
MaxStored == 3     \* items the table may hold
MaxUuids == 3      \* ids generated in one behaviour
MaxPage == 2       \* items the store puts on one page before it cuts the page
MaxRecords == 2    \* stream records in one batch
NumWriters == 2    \* concurrent writers

(***************************************************************************)
(* The universe the inputs are drawn from.                                 *)
(***************************************************************************)
Borrowed == <<"b", ".", "b">>
Returned == <<"b", ".", "r">>
Subjects == {"b111", "b222"}
Types == {Borrowed, Returned}
Ids == {"e01", "e02"}
Times == {9, 10}
Library == "https://library.example.com"
Payload == [object |-> TRUE, userId |-> "u123"]
NotAnObject == [object |-> FALSE, userId |-> ""]
UuidPool == <<"u01", "u02", "u03", "u04", "u05", "u06">>

Date(ms) == [ms |-> ms]
GetTime(date) == date.ms

ValidEvents ==
    { [id |-> i, type |-> ty, subject |-> s, source |-> Library,
       time |-> Date(t), data |-> Payload] :
          i \in Ids, ty \in Types, s \in Subjects, t \in Times }

SampleEvent ==
    [id |-> "e01", type |-> Borrowed, subject |-> "b111", source |-> Library,
     time |-> Date(9), data |-> Payload]

\* One event per violated constraint of the schema.
InvalidEvents ==
    { [SampleEvent EXCEPT !.id = "1"],
      [SampleEvent EXCEPT !.type = <<"a">>],
      [SampleEvent EXCEPT !.subject = ""],
      [SampleEvent EXCEPT !.source = "not-a-url"],
      [SampleEvent EXCEPT !.time = Date(0)],
      [SampleEvent EXCEPT !.data = NotAnObject] }

Events == ValidEvents \cup InvalidEvents

Candidates ==
    { [type |-> ty, subject |-> s, source |-> Library, data |-> Payload] :
          ty \in Types, s \in Subjects }
    \cup { [type |-> <<"b">>, subject |-> "", source |-> "not-a-url", data |-> Payload] }

SeqsUpTo(S, n) == UNION { [1..k -> S] : k \in 1..n }

(***************************************************************************)
(* Byte order of strings.                                                  *)
(***************************************************************************)
Alphabet == <<".", "0", "1", "2", "3", "4", "5", "6", "7", "8", "9", "_",
              "a", "b", "r", "x">>
Code(c) == CHOOSE i \in 1..Len(Alphabet) : Alphabet[i] = c

RECURSIVE LexLess(_, _)
LexLess(a, b) ==
    IF a = <<>> THEN b # <<>>
    ELSE IF b = <<>> THEN FALSE
    ELSE IF Head(a) = Head(b) THEN LexLess(Tail(a), Tail(b))
    ELSE Code(Head(a)) < Code(Head(b))

SubjectOrder == <<"", "b111", "b222">>
SubjectRank(s) == CHOOSE i \in 1..Len(SubjectOrder) : SubjectOrder[i] = s

RECURSIVE DecimalDigits(_)
DecimalDigits(n) ==
    IF n < 10 THEN <<Alphabet[n + 2]>>
    ELSE DecimalDigits(n \div 10) \o <<Alphabet[(n % 10) + 2]>>

(***************************************************************************)
(* The schema and the codec.                                               *)
(***************************************************************************)
IsUrl(s) == s = Library

\* The schema as it would be without the constraint on the source, for
\* comparison.
EventSchemaAnySource(e) ==
    /\ Len(e.id) >= 3
    /\ Len(e.type) >= 3
    /\ Len(e.subject) >= 3
    /\ e.time >= 1
    /\ e.data.object

\* The constraints of the schema on the six logical fields, time in ms.
EventSchema(e) ==
    /\ Len(e.id) >= 3
    /\ Len(e.type) >= 3
    /\ Len(e.subject) >= 3
    /\ IsUrl(e.source)
    /\ e.time >= 1
    /\ e.data.object

\* The sort key as it would be with the type first, for comparison.
TimeTypeTypeFirst(ms, type) == type \o <<"_">> \o DecimalDigits(ms)

\* `${time}_${type}`
TimeType(ms, type) == DecimalDigits(ms) \o <<"_">> \o type

\* error.message of a failed validation: the fields of the schema that the
\* value violates, in the order of the schema.
Issues(e) ==
    SelectSeq(<<"id", "type", "subject", "source", "time", "data">>,
              LAMBDA f : \/ f = "id" /\ Len(e.id) < 3
                         \/ f = "type" /\ Len(e.type) < 3
                         \/ f = "subject" /\ Len(e.subject) < 3
                         \/ f = "source" /\ ~IsUrl(e.source)
                         \/ f = "time" /\ e.time < 1
                         \/ f = "data" /\ ~e.data.object)

\* The derived keys that do not fit the logical fields.
KeyIssues(item) ==
    SelectSeq(<<"time_type", "pk_all">>,
              LAMBDA f : \/ f = "time_type"
                            /\ item.time_type # TimeType(item.time, item.type)
                         \/ f = "pk_all" /\ item.pk_all # "all")

Failure(message) == [error |-> TRUE, message |-> message]

\* toDynamo as it would be with the time in seconds, for comparison.
ToDynamoSeconds(event) ==
    LET ms == GetTime(event.time)
        seconds == ms \div 1000
    IN IF ~EventSchema([event EXCEPT !.time = ms])
       THEN Failure(Issues([event EXCEPT !.time = ms]))
       ELSE [error |-> FALSE,
             dynamoEvent |->
                 [id |-> event.id, type |-> event.type, subject |-> event.subject,
                  source |-> event.source, time |-> seconds, data |-> event.data,
                  time_type |-> TimeType(seconds, event.type), pk_all |-> "all"]]

\* toDynamo as it would be if it handed out the record next to the error, for
\* comparison.
ToDynamoKeepsValue(event) ==
    LET ms == GetTime(event.time)
        dynamoEvent == [id |-> event.id, type |-> event.type, subject |-> event.subject,
                        source |-> event.source, time |-> ms, data |-> event.data,
                        time_type |-> TimeType(ms, event.type), pk_all |-> "all"]
    IN IF ~EventSchema([event EXCEPT !.time = ms])
       THEN [error |-> TRUE, message |-> Issues([event EXCEPT !.time = ms]),
             dynamoEvent |-> dynamoEvent]
       ELSE [error |-> FALSE, dynamoEvent |-> dynamoEvent]

\* Cloudevent.toDynamo
ToDynamo(event) ==
    LET ms == GetTime(event.time) IN
    IF ~EventSchema([event EXCEPT !.time = ms])
       THEN Failure(Issues([event EXCEPT !.time = ms]))
    ELSE [error |-> FALSE,
          dynamoEvent |->
              [id |-> event.id, type |-> event.type, subject |-> event.subject,
               source |-> event.source, time |-> ms, data |-> event.data,
               time_type |-> TimeType(ms, event.type), pk_all |-> "all"]]

\* Cloudevent.fromDynamo
FromDynamo(item) ==
    IF \/ item.pk_all # "all"
       \/ item.time_type # TimeType(item.time, item.type)
       \/ ~EventSchema(item)
    THEN Failure(KeyIssues(item) \o Issues(item))
    ELSE [error |-> FALSE,
          event |->
              [id |-> item.id, type |-> item.type, subject |-> item.subject,
               source |-> item.source, time |-> Date(item.time), data |-> item.data]]

\* Cloudevent.new, with the id and the clock reading it draws
New(candidate, id, ms) ==
    LET event == [id |-> id, type |-> candidate.type, subject |-> candidate.subject,
                  source |-> candidate.source, time |-> Date(ms),
                  data |-> candidate.data]
    IN IF ~EventSchema([event EXCEPT !.time = ms])
       THEN Failure(Issues([event EXCEPT !.time = ms]))
       ELSE [error |-> FALSE, event |-> event]

(***************************************************************************)
(* The table: its key schema and what a put does.                          *)
(***************************************************************************)
\* A key schema without the type in the sort key, for comparison.
PrimaryKeyTimeOnly(item) == <<item.subject, DecimalDigits(item.time)>>

\* KeySchema: subject HASH, time_type RANGE
PrimaryKey(item) == <<item.subject, item.time_type>>

\* A put replaces the item that has the same primary key, if there is one.
Put(tbl, item) == { x \in tbl : PrimaryKey(x) # PrimaryKey(item) } \cup {item}

RECURSIVE PutAll(_, _)
PutAll(tbl, items) ==
    IF items = <<>> THEN tbl ELSE PutAll(Put(tbl, Head(items)), Tail(items))

\* AllEventsById projects the keys only.
IndexEntry(item) == [id |-> item.id, subject |-> item.subject, time_type |-> item.time_type]
IndexOf(tbl) == { IndexEntry(x) : x \in tbl }

(***************************************************************************)
(* EventDB: the write path.                                                *)
(***************************************************************************)
NoCall == [op |-> "none"]
NoQuery == [index |-> "none"]
NoKey == [none |-> TRUE]

\* The locals of paginatedQuery as they would be if the accumulators outlived
\* the call, for comparison.
ScanIdleKeepsItems ==
    /\ pc' = "idle"
    /\ query' = NoQuery
    /\ lastEvaluatedKey' = NoKey
    /\ validItems' = validItems
    /\ invalidItems' = invalidItems
    /\ pages' = <<>>
    /\ snapshot' = {}

\* The local state of paginatedQuery when no scan is running.
ScanIdle ==
    /\ pc' = "idle"
    /\ query' = NoQuery
    /\ lastEvaluatedKey' = NoKey
    /\ validItems' = <<>>
    /\ invalidItems' = <<>>
    /\ pages' = <<>>
    /\ snapshot' = {}

\* No call of the client is running and the result of the last one is consumed.
AtRest == lastCall = NoCall /\ pc = "idle"

\* The caller takes the result of the call that finished; its record is gone.
Return ==
    /\ lastCall # NoCall \/ pc = "done"
    /\ lastCall' = NoCall
    /\ ScanIdle
    /\ UNCHANGED <<storeVars, writerVars, handlerVars>>

\* The items of a request that the store takes, in request order.
Taken(putRequests, accepted) ==
    LET idx == SelectSeq([i \in DOMAIN putRequests |-> i], LAMBDA i : i \in accepted)
    IN [k \in DOMAIN idx |-> putRequests[idx[k]]]

\* The store refuses a batch that names one primary key twice.
DistinctKeys(putRequests) ==
    \A i, j \in DOMAIN putRequests :
        i # j => PrimaryKey(putRequests[i]) # PrimaryKey(putRequests[j])

\* AllEventsById follows the table: the entry of a replaced item goes, the
\* entries of the items put come.
UpdateIndex(idx, items) ==
    { e \in idx : \A k \in DOMAIN items :
                      <<e.subject, e.time_type>> # PrimaryKey(items[k]) }
    \cup { IndexEntry(items[k]) : k \in DOMAIN items }

\* What a finished addEvents or addNewEvents call leaves behind: for each element
\* of its input whether the codec made a value of it, how the call ended, the
\* error it threw, the requests it sent and what it returned.
\* errors.map((e) => e.message).join('; ')
RECURSIVE Join(_)
Join(messages) ==
    IF messages = <<>> THEN <<>>
    ELSE IF Len(messages) = 1 THEN messages[1]
    ELSE messages[1] \o <<"; ">> \o Join(Tail(messages))

\* The messages as they would be if the loop stopped at the first error, for
\* comparison.
MessagesOfFirst(results) ==
    LET errors == SelectSeq(results, LAMBDA r : r.error)
    IN [k \in DOMAIN errors \cap {1} |-> errors[k].message]

\* The messages of the results that carry an error, in the order of the results.
Messages(results) ==
    LET errors == SelectSeq(results, LAMBDA r : r.error)
    IN [k \in DOMAIN errors |-> errors[k].message]

\* The error thrown is `${message}: ${joined}`.
Rejected(op, converted, message, joined) ==
    [op |-> op, converted |-> converted, outcome |-> "rejected", error |-> message,
     joined |-> joined, sends |-> 0, stored |-> 0, returned |-> <<>>,
     requests |-> <<>>]

\* dynamodb.send(new BatchWriteCommand(...)): the request fails, or the store
\* takes some of the puts and reports the others as unprocessed, which the
\* caller does not look at.  Of the requests sent the history keeps those in
\* kept: the put requests of addNewEvents, which its argument does not fix.
SendBatchWrite(op, converted, putRequests, events, kept) ==
    \/ /\ UNCHANGED storeVars
       /\ lastCall' = [op |-> op, converted |-> converted, outcome |-> "failed",
                       error |-> "store", sends |-> 1, stored |-> 0,
                       returned |-> <<>>, requests |-> kept]
    \/ /\ DistinctKeys(putRequests)
       /\ \E accepted \in SUBSET DOMAIN putRequests :
            LET taken == Taken(putRequests, accepted) IN
            /\ table' = PutAll(table, taken)
            /\ idIndex' = UpdateIndex(idIndex, taken)
            /\ lastCall' = [op |-> op, converted |-> converted, outcome |-> "ok",
                            error |-> "", sends |-> 1, stored |-> Len(taken),
                            returned |-> events, requests |-> kept]

\* addEvents as it would be if it sent the events that converted in spite of
\* the errors, for comparison.
AddEventsSendsOnError(events) ==
    LET conv == [i \in DOMAIN events |-> ToDynamo(events[i])]
        good == SelectSeq(conv, LAMBDA c : ~c.error)
    IN /\ Cardinality(table) + Len(events) <= MaxStored
       /\ AtRest
       /\ UNCHANGED <<writerVars, scanVars, handlerVars>>
       /\ Len(good) > 0
       /\ SendBatchWrite("addEvents", [i \in DOMAIN events |-> ~conv[i].error],
                         [i \in DOMAIN good |-> good[i].dynamoEvent], <<>>, <<>>)

\* EventDB.addEvents
AddEvents(events) ==
    LET conv == [i \in DOMAIN events |-> ToDynamo(events[i])]
        errors == { i \in DOMAIN events : conv[i].error }
    IN /\ Cardinality(table) + Len(events) <= MaxStored
       /\ AtRest
       /\ UNCHANGED <<writerVars, scanVars, handlerVars>>
       /\ IF errors # {}
          THEN /\ UNCHANGED storeVars
               /\ lastCall' = Rejected("addEvents",
                                  [i \in DOMAIN events |-> ~conv[i].error],
                                  "Failed to convert events to DynamoDB format",
                                  Join(Messages(conv)))
          ELSE SendBatchWrite("addEvents", [i \in DOMAIN events |-> TRUE],
                              [i \in DOMAIN events |-> conv[i].dynamoEvent], <<>>, <<>>)

\* The readings of the clock for n calls in a row: they never go back.
Readings(n) ==
    { ts \in [1..n -> Times] :
        /\ ts[1] >= clock
        /\ \A i \in 1..(n - 1) : ts[i] <= ts[i + 1] }

\* addNewEvents as it would be if it stored the candidates that made an event
\* in spite of the errors, for comparison.
AddNewEventsSkipsInvalid(candidates) ==
    LET n == Len(candidates) IN
    /\ Cardinality(table) + n <= MaxStored
    /\ uuids + n <= MaxUuids
    /\ AtRest
    /\ UNCHANGED <<scanVars, handlerVars, callerVars>>
    /\ uuids' = uuids + n
    /\ \E ts \in Readings(n) :
         LET made == [i \in 1..n |-> New(candidates[i], UuidPool[uuids + i], ts[i])]
             good == SelectSeq(made, LAMBDA m : ~m.error)
             events == [i \in DOMAIN good |-> good[i].event]
         IN /\ clock' = ts[n]
            /\ created' = created \o events
            /\ Len(good) > 0
            /\ SendBatchWrite("addNewEvents", [i \in 1..n |-> ~made[i].error],
                   [i \in DOMAIN events |-> ToDynamo(events[i]).dynamoEvent], events,
                   <<[i \in DOMAIN events |-> ToDynamo(events[i]).dynamoEvent]>>)

\* addNewEvents as it would be if it drew one id for the call instead of one
\* for each candidate, for comparison.
AddNewEventsOneId(candidates) ==
    LET n == Len(candidates) IN
    /\ Cardinality(table) + n <= MaxStored
    /\ uuids + n <= MaxUuids
    /\ AtRest
    /\ UNCHANGED <<scanVars, handlerVars, callerVars>>
    /\ uuids' = uuids + n
    /\ \E ts \in Readings(n) :
         LET made == [i \in 1..n |-> New(candidates[i], UuidPool[uuids + 1], ts[i])]
             errors == { i \in 1..n : made[i].error }
             events == [i \in 1..n |-> made[i].event]
         IN /\ clock' = ts[n]
            /\ created' = IF errors # {} THEN created ELSE created \o events
            /\ IF errors # {}
               THEN /\ UNCHANGED storeVars
                    /\ lastCall' = Rejected("addNewEvents",
                                            [i \in 1..n |-> ~made[i].error],
                                            "Failed to create events",
                                            Join(Messages(made)))
               ELSE SendBatchWrite("addNewEvents", [i \in 1..n |-> TRUE],
                        [i \in 1..n |-> ToDynamo(events[i]).dynamoEvent], events,
                        <<[i \in 1..n |-> ToDynamo(events[i]).dynamoEvent]>>)

\* EventDB.addNewEvents
AddNewEvents(candidates) ==
    LET n == Len(candidates) IN
    /\ Cardinality(table) + n <= MaxStored
    /\ uuids + n <= MaxUuids
    /\ AtRest
    /\ UNCHANGED <<scanVars, handlerVars, callerVars>>
    /\ uuids' = uuids + n
    /\ \E ts \in Readings(n) :
         LET made == [i \in 1..n |-> New(candidates[i], UuidPool[uuids + i], ts[i])]
             errors == { i \in 1..n : made[i].error }
             events == [i \in 1..n |-> made[i].event]
         IN /\ clock' = ts[n]
            /\ created' = IF errors # {} THEN created ELSE created \o events
            /\ IF errors # {}
               THEN /\ UNCHANGED storeVars
                    /\ lastCall' = Rejected("addNewEvents",
                                            [i \in 1..n |-> ~made[i].error],
                                            "Failed to create events",
                                            Join(Messages(made)))
               ELSE SendBatchWrite("addNewEvents", [i \in 1..n |-> TRUE],
                        [i \in 1..n |-> ToDynamo(events[i]).dynamoEvent], events,
                        <<[i \in 1..n |-> ToDynamo(events[i]).dynamoEvent]>>)

\* Concurrent writers: independent EventDB instances on one table.
Writers == 1..NumWriters

\* Nothing is known of earlier calls, and no concurrent writer has a request out.
History(a) ==
    /\ arg = a
    /\ created = <<>>
    /\ previous = NoCall
    /\ inflight = [w \in Writers |-> NoCall]
    /\ acknowledged = {}

NoHistory == History(NoCall)

HandlerIdle ==
    /\ hpc = "idle"
    /\ records = <<>>
    /\ position = 0
    /\ batchItemFailures = <<>>
    /\ attempts = <<>>
    /\ published = <<>>
    /\ feed = <<>>
    /\ topic = {}

ScanAtRest ==
    /\ pc = "idle"
    /\ query = NoQuery
    /\ lastEvaluatedKey = NoKey
    /\ validItems = <<>>
    /\ invalidItems = <<>>
    /\ pages = <<>>
    /\ snapshot = {}

(***************************************************************************)
(* The store's answer to a Query: the items of one index partition in      *)
(* ascending key order, cut into pages.                                    *)
(***************************************************************************)
PageLimit == 100

AllQuery == [index |-> "AllEventsByTime"]
SubjectQuery(subject) == [index |-> "table", subject |-> subject]
SubjectTypeQuery(subject, type) ==
    [index |-> "SubjectEventsByType", subject |-> subject, type |-> type]

\* Order of the primary keys inside one index entry list.
PrimaryKeyLess(a, b) ==
    \/ SubjectRank(a.subject) < SubjectRank(b.subject)
    \/ a.subject = b.subject /\ LexLess(a.time_type, b.time_type)

\* The table's sort key is the string time_type.
BySortKeyLess(a, b) == LexLess(a.time_type, b.time_type)

\* AllEventsByTime as it would be with the string time_type as its sort key,
\* for comparison.
ByTimeLessLexical(a, b) ==
    \/ LexLess(a.time_type, b.time_type)
    \/ a.time_type = b.time_type /\ PrimaryKeyLess(a, b)

\* AllEventsByTime's sort key is the number time.
ByTimeLess(a, b) ==
    \/ a.time < b.time
    \/ a.time = b.time /\ PrimaryKeyLess(a, b)

\* SubjectEventsByType's sort key is the string type.
ByTypeLess(a, b) ==
    \/ LexLess(a.type, b.type)
    \/ a.type = b.type /\ PrimaryKeyLess(a, b)

IndexLess(q, a, b) ==
    CASE q.index = "table" -> BySortKeyLess(a, b)
      [] q.index = "AllEventsByTime" -> ByTimeLess(a, b)
      [] q.index = "SubjectEventsByType" -> ByTypeLess(a, b)

\* KeyConditionExpression
Matches(q, tbl) ==
    CASE q.index = "table" -> { x \in tbl : x.subject = q.subject }
      [] q.index = "AllEventsByTime" -> { x \in tbl : x.pk_all = "all" }
      [] q.index = "SubjectEventsByType" ->
             { x \in tbl : x.subject = q.subject /\ x.type = q.type }

RECURSIVE Ascending(_, _)
Ascending(q, S) ==
    IF S = {} THEN <<>>
    ELSE LET first == CHOOSE x \in S : \A y \in S \ {x} : IndexLess(q, x, y)
         IN <<first>> \o Ascending(q, S \ {first})

\* The key of an item in the index of the query: what a cursor holds.
KeyOf(q, x) ==
    [subject |-> x.subject, time_type |-> x.time_type, time |-> x.time,
     type |-> x.type, pk_all |-> x.pk_all]

\* The matching items after the cursor, in ascending order (ScanIndexForward).
After(q, tbl, cursor) ==
    SelectSeq(Ascending(q, Matches(q, tbl)),
              LAMBDA x : cursor = NoKey \/ IndexLess(q, cursor, x))

Min(a, b) == IF a <= b THEN a ELSE b

\* The answers the store may give to one page request: it cuts the page after
\* any number of items up to the limit, and names the last item as the cursor
\* when items are left, or when the page is full.
QueryAnswers(q, tbl, cursor) ==
    LET rest == After(q, tbl, cursor)
        full == Min(PageLimit, MaxPage)
    IN IF rest = <<>>
       THEN { [Items |-> <<>>, LastEvaluatedKey |-> NoKey] }
       ELSE UNION {
              { [Items |-> SubSeq(rest, 1, n), LastEvaluatedKey |-> k] :
                  k \in IF n < Len(rest) THEN { KeyOf(q, rest[n]) }
                        ELSE IF n = full THEN { NoKey, KeyOf(q, rest[n]) }
                        ELSE { NoKey } } :
              n \in 1..Min(full, Len(rest)) }

(***************************************************************************)
(* EventDB: the scans.                                                     *)
(***************************************************************************)
Parses(item) == ~FromDynamo(item).error

\* validItems.push(event) for every item of the page that parses
Parsed(valid, items) ==
    LET good == SelectSeq(items, Parses)
    IN valid \o [i \in DOMAIN good |-> FromDynamo(good[i]).event]

\* The error branch as it would be if it only logged, for comparison.
UnparsedDropped(invalid, items) == invalid

\* invalidItems.push(item) for every item of the page that does not parse
Unparsed(invalid, items) ==
    invalid \o SelectSeq(items, LAMBDA x : ~Parses(x))

\* What a scan leaves behind when a page request fails: the query, the error,
\* the number of page requests it made and what it returned.
ScanFailed(q, returned) ==
    [op |-> "scan", outcome |-> "failed", error |-> "store", query |-> q,
     requests |-> Len(pages) + 1, returned |-> returned]

\* The failing send as it would be if the scan resolved with what it had, for
\* comparison.
PageRequestFailsKeepsItems(q, cursor) ==
    /\ lastCall' = ScanFailed(q, validItems \o invalidItems)
    /\ ScanIdle
    /\ UNCHANGED <<storeVars, writerVars, handlerVars>>

\* await this.dynamodb.send(...) throws: nothing catches it, so paginatedQuery
\* rejects with the error and its locals are gone.
PageRequestFails(q, cursor) ==
    /\ lastCall' = ScanFailed(q, <<>>)
    /\ ScanIdle
    /\ UNCHANGED <<storeVars, writerVars, handlerVars>>

\* One turn of the loop of paginatedQuery: a page request from the cursor, and
\* the split of the items of the answer, or the failure of the request.
PageRequest(q, cursor) ==
    \/ \E answer \in QueryAnswers(q, table, cursor) :
        /\ query' = q
        /\ pages' = Append(pages, [ExclusiveStartKey |-> cursor,
                                   Limit |-> PageLimit,
                                   Items |-> answer.Items,
                                   LastEvaluatedKey |-> answer.LastEvaluatedKey])
        /\ validItems' = Parsed(validItems, answer.Items)
        /\ invalidItems' = Unparsed(invalidItems, answer.Items)
        /\ lastEvaluatedKey' = answer.LastEvaluatedKey
        /\ pc' = IF answer.LastEvaluatedKey = NoKey THEN "done" ELSE "paging"
        /\ snapshot' = IF pc = "idle" THEN table ELSE snapshot
        /\ UNCHANGED <<storeVars, writerVars, lastCall, handlerVars>>
    \/ PageRequestFails(q, cursor)

\* EventDB.fetchAllEvents, up to the answer to its first page request
FetchAllEvents == AtRest /\ PageRequest(AllQuery, NoKey)

\* EventDB.fetchEventsForSubject, up to the answer to its first page request
FetchEventsForSubject(subject) == AtRest /\ PageRequest(SubjectQuery(subject), NoKey)

\* EventDB.fetchEventsForSubjectAndType, up to the answer to its first page request
FetchEventsForSubjectAndType(subject, type) ==
    AtRest /\ PageRequest(SubjectTypeQuery(subject, type), NoKey)

\* The loop as it would be if it did not pass the cursor on, for comparison.
NextPageFromStart == pc = "paging" /\ PageRequest(query, NoKey)

\* The loop as it would be if it were left after one turn, for comparison.
NextPageOnce ==
    /\ pc = "paging"
    /\ pc' = "done"
    /\ UNCHANGED <<query, lastEvaluatedKey, validItems, invalidItems, pages, snapshot,
                   storeVars, writerVars, lastCall, handlerVars>>

\* paginatedQuery: the loop goes on while the last answer named a cursor.
NextPage == pc = "paging" /\ PageRequest(query, lastEvaluatedKey)

(***************************************************************************)
(* Items that something other than this service left in the table: they do *)
(* not parse into events.  An attribute that is "" is one the item lacks;  *)
(* an item without pk_all is not in AllEventsByTime.                       *)
(***************************************************************************)
SampleItem == ToDynamo([SampleEvent EXCEPT !.time = Date(10)]).dynamoEvent

ForeignItems ==
    { [SampleItem EXCEPT !.id = "1"],
      [SampleItem EXCEPT !.time_type = <<"x">>, !.type = Returned],
      [SampleItem EXCEPT !.subject = "b222", !.pk_all = ""] }

(***************************************************************************)
(* EventDB: the lookup by id.                                              *)
(***************************************************************************)
MissingKeys == "ID-index is missing subject or time_type attribute"
NotFound == "Event from ID-index could not be found in database."
Invalid == "Event is invalid"

\* What a finished fetchEvent call leaves behind: the id asked for, the index
\* entry the first answer held, the requests sent, how the call ended, the
\* error it threw and what it returned.
Looked(id, eventKeys, sends, outcome, error, returned) ==
    [op |-> "fetchEvent", id |-> id, eventKeys |-> eventKeys, sends |-> sends,
     outcome |-> outcome, error |-> error, returned |-> returned]

\* Query on the table with the full primary key, Limit 1
Stored(tbl, eventKeys) ==
    { x \in tbl : x.subject = eventKeys.subject /\ x.time_type = eventKeys.time_type }

\* fetchEvent as it would be if it took a missing primary record for not-found,
\* for comparison.
FetchEventNullWhenAbsent(id) ==
    /\ AtRest
    /\ UNCHANGED <<storeVars, writerVars, scanVars, handlerVars>>
    /\ LET entries == { e \in idIndex : e.id = id }
       IN IF entries = {}
          THEN lastCall' = Looked(id, NoKey, 1, "null", "", <<>>)
          ELSE \E eventKeys \in entries :
                 IF eventKeys.subject = "" \/ eventKeys.time_type = <<>>
                 THEN lastCall' = Looked(id, eventKeys, 1, "error", MissingKeys, <<>>)
                 ELSE LET found == Stored(table, eventKeys)
                      IN IF found = {}
                         THEN lastCall' = Looked(id, eventKeys, 2, "null", "", <<>>)
                         ELSE \E dynamoEvent \in found :
                                lastCall' =
                                  IF FromDynamo(dynamoEvent).error
                                  THEN Looked(id, eventKeys, 2, "error", Invalid, <<>>)
                                  ELSE Looked(id, eventKeys, 2, "event", "",
                                              <<FromDynamo(dynamoEvent).event>>)

\* fetchEvent as it would be if it took a record that does not parse, or an
\* entry without keys, for not-found, for comparison.
FetchEventNullWhenDefect(id) ==
    /\ AtRest
    /\ UNCHANGED <<storeVars, writerVars, scanVars, handlerVars>>
    /\ LET entries == { e \in idIndex : e.id = id }
       IN IF entries = {}
          THEN lastCall' = Looked(id, NoKey, 1, "null", "", <<>>)
          ELSE \E eventKeys \in entries :
                 IF eventKeys.subject = "" \/ eventKeys.time_type = <<>>
                 THEN lastCall' = Looked(id, eventKeys, 1, "null", "", <<>>)
                 ELSE LET found == Stored(table, eventKeys)
                      IN IF found = {}
                         THEN lastCall' = Looked(id, eventKeys, 2, "error", NotFound, <<>>)
                         ELSE \E dynamoEvent \in found :
                                lastCall' =
                                  IF FromDynamo(dynamoEvent).error
                                  THEN Looked(id, eventKeys, 2, "null", "", <<>>)
                                  ELSE Looked(id, eventKeys, 2, "event", "",
                                              <<FromDynamo(dynamoEvent).event>>)

\* EventDB.fetchEvent: a query on AllEventsById (Limit 1), then a query on the
\* table under the key of the entry found.
FetchEvent(id) ==
    /\ AtRest
    /\ UNCHANGED <<storeVars, writerVars, scanVars, handlerVars>>
    /\ LET entries == { e \in idIndex : e.id = id }
       IN IF entries = {}
          THEN lastCall' = Looked(id, NoKey, 1, "null", "", <<>>)
          ELSE \E eventKeys \in entries :
                 IF eventKeys.subject = "" \/ eventKeys.time_type = <<>>
                 THEN lastCall' = Looked(id, eventKeys, 1, "error", MissingKeys, <<>>)
                 ELSE LET found == Stored(table, eventKeys)
                      IN IF found = {}
                         THEN lastCall' = Looked(id, eventKeys, 2, "error", NotFound, <<>>)
                         ELSE \E dynamoEvent \in found :
                                lastCall' =
                                  IF FromDynamo(dynamoEvent).error
                                  THEN Looked(id, eventKeys, 2, "error", Invalid, <<>>)
                                  ELSE Looked(id, eventKeys, 2, "event", "",
                                              <<FromDynamo(dynamoEvent).event>>)

(***************************************************************************)
(* Publisher and PublishHandler.                                           *)
(***************************************************************************)
SequenceNumbers == <<"s1", "s2", "s3", "s4">>

\* Date.toISOString, for the instants of the first second
RECURSIVE PadStart(_, _)
PadStart(digits, n) == IF Len(digits) >= n THEN digits ELSE PadStart(<<"0">> \o digits, n)
ToISOString(date) ==
    <<"1970-01-01T00:00:00.">> \o PadStart(DecimalDigits(GetTime(date)), 3) \o <<"Z">>

\* PublisherConfig.topicArn
TopicArn == "arn:aws:sns:us-east-1:123456789012:MyTopic"

\* JSON.stringify of an Event: the six members, the Date as its ISO string.
JsonStringify(event) ==
    [id |-> event.id, type |-> event.type, subject |-> event.subject,
     source |-> event.source, time |-> ToISOString(event.time), data |-> event.data]

StringAttribute(value) == [DataType |-> "String", StringValue |-> value]

\* publish as it would be with the time attribute in milliseconds, for
\* comparison.
PublishCommandTimeInMs(event) ==
    [TopicArn |-> TopicArn,
     Message |-> JsonStringify(event),
     MessageAttributes |-> [id |-> StringAttribute(event.id),
                            type |-> StringAttribute(event.type),
                            time |-> StringAttribute(DecimalDigits(GetTime(event.time)))]]

\* publish as it would be with the payload alone as the message, for comparison.
PublishCommandOfData(event) ==
    [TopicArn |-> TopicArn,
     Message |-> event.data,
     MessageAttributes |-> [id |-> StringAttribute(event.id),
                            type |-> StringAttribute(event.type),
                            time |-> StringAttribute(ToISOString(event.time))]]

\* Publisher.publish: the command handed to the transport
PublishCommand(event) ==
    [TopicArn |-> TopicArn,
     Message |-> JsonStringify(event),
     MessageAttributes |-> [id |-> StringAttribute(event.id),
                            type |-> StringAttribute(event.type),
                            time |-> StringAttribute(ToISOString(event.time))]]

\* How a call of processRecord ended: whether it returned or threw, the entry
\* it logged and at which level, the commands it handed to the transport, and
\* what the transport did with the last of them.
Ended(outcome, level, log, calls, transport) ==
    [outcome |-> outcome, level |-> level, log |-> log, calls |-> calls,
     transport |-> transport,
     sent |-> IF transport = "accepted" THEN calls ELSE <<>>]

\* processRecord as it would be if it caught the error of the transport, for
\* comparison.
ProcessRecordSwallowsTransport(record) ==
    IF record.eventName # "INSERT"
    THEN { Ended("returned", "error", "Unexpected event name", <<>>, "none") }
    ELSE IF ~record.hasNewImage
    THEN { Ended("returned", "error", "No NewImage found in record", <<>>, "none") }
    ELSE IF FromDynamo(record.NewImage).error
    THEN { Ended("returned", "error", "Failed to parse event", <<>>, "none") }
    ELSE LET command == PublishCommand(FromDynamo(record.NewImage).event)
         IN { Ended("returned", "info", "Published event", <<command>>, "accepted"),
              Ended("returned", "info", "Published event", <<command>>, "failed") }

\* processRecord as it would be if it skipped MODIFY and REMOVE only, for
\* comparison.
ProcessRecordSkipsNamedOnly(record) ==
    IF record.eventName \in {"MODIFY", "REMOVE"}
    THEN { Ended("returned", "error", "Unexpected event name", <<>>, "none") }
    ELSE IF ~record.hasNewImage
    THEN { Ended("returned", "error", "No NewImage found in record", <<>>, "none") }
    ELSE IF FromDynamo(record.NewImage).error
    THEN { Ended("returned", "error", "Failed to parse event", <<>>, "none") }
    ELSE LET command == PublishCommand(FromDynamo(record.NewImage).event)
         IN { Ended("returned", "info", "Published event", <<command>>, "accepted"),
              Ended("threw", "none", "", <<command>>, "failed") }

\* processRecord as it would be without the test for the image, for comparison.
ProcessRecordIgnoresMissingImage(record) ==
    IF record.eventName # "INSERT"
    THEN { Ended("returned", "error", "Unexpected event name", <<>>, "none") }
    ELSE IF ~record.hasNewImage
    THEN { Ended("threw", "none", "", <<>>, "none") }
    ELSE IF FromDynamo(record.NewImage).error
    THEN { Ended("returned", "error", "Failed to parse event", <<>>, "none") }
    ELSE LET command == PublishCommand(FromDynamo(record.NewImage).event)
         IN { Ended("returned", "info", "Published event", <<command>>, "accepted"),
              Ended("threw", "none", "", <<command>>, "failed") }

\* processRecord as it would be if it published an image that does not parse
\* as it is, for comparison.
ProcessRecordPublishesUnparsed(record) ==
    IF record.eventName # "INSERT"
    THEN { Ended("returned", "error", "Unexpected event name", <<>>, "none") }
    ELSE IF ~record.hasNewImage
    THEN { Ended("returned", "error", "No NewImage found in record", <<>>, "none") }
    ELSE IF FromDynamo(record.NewImage).error
    THEN { Ended("returned", "error", "Failed to parse event",
                 <<[TopicArn |-> TopicArn, Message |-> record.NewImage]>>, "accepted") }
    ELSE LET command == PublishCommand(FromDynamo(record.NewImage).event)
         IN { Ended("returned", "info", "Published event", <<command>>, "accepted"),
              Ended("threw", "none", "", <<command>>, "failed") }

\* processRecord as it would be if it threw on an image that does not parse,
\* for comparison.
ProcessRecordThrowsOnParse(record) ==
    IF record.eventName # "INSERT"
    THEN { Ended("returned", "error", "Unexpected event name", <<>>, "none") }
    ELSE IF ~record.hasNewImage
    THEN { Ended("returned", "error", "No NewImage found in record", <<>>, "none") }
    ELSE IF FromDynamo(record.NewImage).error
    THEN { Ended("threw", "error", "Failed to parse event", <<>>, "none") }
    ELSE LET command == PublishCommand(FromDynamo(record.NewImage).event)
         IN { Ended("returned", "info", "Published event", <<command>>, "accepted"),
              Ended("threw", "none", "", <<command>>, "failed") }

\* Publisher.processRecord: the ways one call can end. A call that reaches
\* publish ends as the transport decides.
ProcessRecordOutcomes(record) ==
    IF record.eventName # "INSERT"
    THEN { Ended("returned", "error", "Unexpected event name", <<>>, "none") }
    ELSE IF ~record.hasNewImage
    THEN { Ended("returned", "error", "No NewImage found in record", <<>>, "none") }
    ELSE IF FromDynamo(record.NewImage).error
    THEN { Ended("returned", "error", "Failed to parse event", <<>>, "none") }
    ELSE LET command == PublishCommand(FromDynamo(record.NewImage).event)
         IN { Ended("returned", "info", "Published event", <<command>>, "accepted"),
              Ended("threw", "none", "", <<command>>, "failed") }

\* The stream records of a batch: record i carries sequence number i or none.
\* eventName of a stream record; "" is a record without one.
EventNames == {"INSERT", "MODIFY", "REMOVE", ""}
StreamImages == { SampleItem, [SampleItem EXCEPT !.subject = ""] }
StreamRecords(i) ==
    { r \in { [eventName |-> n, hasNewImage |-> h, NewImage |-> img,
               SequenceNumber |-> sn] :
                 n \in EventNames, h \in BOOLEAN, img \in StreamImages,
                 sn \in {"", SequenceNumbers[i]} } :
        \* a record without an image, or of another kind, in one form only
        (~r.hasNewImage \/ r.eventName # "INSERT") => r.NewImage = SampleItem }
RECURSIVE BatchesOf(_)
BatchesOf(k) ==
    IF k = 0 THEN { <<>> }
    ELSE { Append(b, r) : b \in BatchesOf(k - 1), r \in StreamRecords(k) }
Batches == UNION { BatchesOf(k) : k \in 0..MaxRecords }

\* The entry of the history for one call of processRecord.
Attempt(at, record, result) ==
    [position |-> at, record |-> record, outcome |-> result.outcome,
     level |-> result.level, log |-> result.log, calls |-> result.calls,
     transport |-> result.transport]

\* PublishHandler.handle is invoked with a batch.
Handle(batch) ==
    /\ hpc = "idle"
    /\ hpc' = "loop"
    /\ records' = batch
    /\ position' = 1
    /\ batchItemFailures' = <<>>
    /\ attempts' = <<>>
    /\ published' = <<>>
    /\ UNCHANGED <<storeVars, writerVars, lastCall, scanVars, feedVars>>

\* The loop as it would be if a throwing record ended it, for comparison.
ProcessRecordAbortsOnThrow ==
    /\ hpc = "loop"
    /\ position <= Len(records)
    /\ LET record == records[position]
       IN \E result \in ProcessRecordOutcomes(record) :
            /\ attempts' = Append(attempts, Attempt(position, record, result))
            /\ published' = published \o result.sent
            /\ topic' = topic \cup { result.sent[k] : k \in DOMAIN result.sent }
            /\ batchItemFailures' =
                 IF result.outcome = "threw" /\ record.SequenceNumber # ""
                 THEN Append(batchItemFailures, [itemIdentifier |-> record.SequenceNumber])
                 ELSE batchItemFailures
            /\ position' = IF result.outcome = "threw" THEN Len(records) + 1 ELSE position + 1
    /\ UNCHANGED <<storeVars, writerVars, lastCall, scanVars, hpc, records, feed>>

\* The catch clause as it would be if it named every record of the batch, for
\* comparison.
ProcessRecordNamesBatch ==
    /\ hpc = "loop"
    /\ position <= Len(records)
    /\ LET record == records[position]
       IN \E result \in ProcessRecordOutcomes(record) :
            /\ attempts' = Append(attempts, Attempt(position, record, result))
            /\ published' = published \o result.sent
            /\ topic' = topic \cup { result.sent[k] : k \in DOMAIN result.sent }
            /\ batchItemFailures' =
                 IF result.outcome = "threw"
                 THEN batchItemFailures \o
                        [i \in DOMAIN records |-> [itemIdentifier |-> records[i].SequenceNumber]]
                 ELSE batchItemFailures
            /\ position' = position + 1
    /\ UNCHANGED <<storeVars, writerVars, lastCall, scanVars, hpc, records, feed>>

\* One turn of the loop of handle: processRecord on the record at hand, and the
\* catch clause if it threw.
ProcessRecord ==
    /\ hpc = "loop"
    /\ position <= Len(records)
    /\ LET record == records[position]
       IN \E result \in ProcessRecordOutcomes(record) :
            /\ attempts' = Append(attempts, Attempt(position, record, result))
            /\ published' = published \o result.sent
            /\ topic' = topic \cup { result.sent[k] : k \in DOMAIN result.sent }
            /\ batchItemFailures' =
                 IF result.outcome = "threw" /\ record.SequenceNumber # ""
                 THEN Append(batchItemFailures, [itemIdentifier |-> record.SequenceNumber])
                 ELSE batchItemFailures
            /\ position' = position + 1
    /\ UNCHANGED <<storeVars, writerVars, lastCall, scanVars, hpc, records, feed>>

\* The loop of handle is through: return { batchItemFailures }.
HandleReturns ==
    /\ hpc = "loop"
    /\ position > Len(records)
    /\ hpc' = "done"
    /\ UNCHANGED <<storeVars, writerVars, lastCall, scanVars, records, position,
                   batchItemFailures, attempts, published, feedVars>>

\* reportBatchItemFailures: the stream moves its checkpoint past the batch if
\* the response names no record of it, and else to the first record of the
\* batch that the response names; what is behind the checkpoint comes again.
CheckpointPastBatch(pending, batch, failures) ==
    SubSeq(pending, Len(batch) + 1, Len(pending))

Checkpoint(pending, batch, failures) ==
    LET named == { i \in DOMAIN batch :
                     \E k \in DOMAIN failures :
                         failures[k].itemIdentifier = batch[i].SequenceNumber }
        from == IF named = {} THEN Len(batch) + 1
                ELSE CHOOSE i \in named : \A j \in named : i <= j
    IN SubSeq(pending, from, Len(pending))

\* The invoker takes the response; the invocation is over.
Respond ==
    /\ hpc = "done"
    /\ hpc' = "idle"
    /\ records' = <<>>
    /\ position' = 0
    /\ batchItemFailures' = <<>>
    /\ attempts' = <<>>
    /\ published' = <<>>
    /\ feed' = Checkpoint(feed, records, batchItemFailures)
    /\ topic' = topic
    /\ UNCHANGED <<storeVars, writerVars, lastCall, scanVars>>

\* The stream invokes handle with the records at its checkpoint.
Deliver ==
    \E n \in 1..Min(MaxRecords, Len(feed)) : Handle(SubSeq(feed, 1, n))

\* processRecord on a given record of the stream, with a publish call that the
\* transport accepts.
Accepted(sequenceNumber) ==
    /\ ProcessRecord
    /\ records[position].SequenceNumber = sequenceNumber
    /\ attempts'[Len(attempts')].transport = "accepted"

(***************************************************************************)
(* Spec: one client that appends events it made itself: an empty table,    *)
(* then addEvents calls one after another.                                 *)
(* SpecNew: one client that appends candidates: an empty table, then       *)
(* addNewEvents calls one after another.                                   *)
(***************************************************************************)
Init ==
    /\ table = {}
    /\ idIndex = {}
    /\ clock = 9
    /\ uuids = 0
    /\ NoHistory
    /\ lastCall = NoCall
    /\ ScanAtRest
    /\ HandlerIdle

Next ==
    \/ \E events \in SeqsUpTo(Events, MaxBatch) : AddEvents(events)
    \/ Return

Spec == Init /\ [][Next]_vars

NextNew ==
    \/ \E candidates \in SeqsUpTo(Candidates, MaxBatch) : AddNewEvents(candidates)
    \/ Return

SpecNew == Init /\ [][NextNew]_vars

(***************************************************************************)
(* SpecScan: one client that appends and scans, one call after another,    *)
(* on a table that may hold foreign items from the start.                  *)
(***************************************************************************)
InitScan ==
    /\ table \in SUBSET ForeignItems
    /\ idIndex = IndexOf(table)
    /\ clock = 9
    /\ uuids = 0
    /\ NoHistory
    /\ lastCall = NoCall
    /\ ScanAtRest
    /\ HandlerIdle

NextScan ==
    \/ \E event \in ValidEvents : AddEvents(<<event>>)
    \/ FetchAllEvents
    \/ \E subject \in Subjects : FetchEventsForSubject(subject)
    \/ \E subject \in Subjects, type \in Types :
           FetchEventsForSubjectAndType(subject, type)
    \/ NextPage
    \/ Return

SpecScan == InitScan /\ [][NextScan]_vars

(***************************************************************************)
(* SpecLookup: one client that appends and looks events up by id, on a     *)
(* table that may hold foreign items and an id index that may hold entries *)
(* that point nowhere.                                                     *)
(***************************************************************************)
DefectEntries ==
    { [id |-> "e01", subject |-> "b222", time_type |-> TimeType(9, Returned)],
      [id |-> "e02", subject |-> "", time_type |-> <<>>] }

LookupIds == Ids \cup {"1", "e99"}

InitLookup ==
    /\ table \in SUBSET ForeignItems
    /\ \E defects \in SUBSET DefectEntries : idIndex = IndexOf(table) \cup defects
    /\ clock = 9
    /\ uuids = 0
    /\ NoHistory
    /\ lastCall = NoCall
    /\ ScanAtRest
    /\ HandlerIdle

NextLookup ==
    \/ \E event \in ValidEvents : AddEvents(<<event>>)
    \/ \E id \in LookupIds : FetchEvent(id)
    \/ Return

SpecLookup == InitLookup /\ [][NextLookup]_vars

(***************************************************************************)
(* SpecDefects: one client that looks events up by id and scans, on a      *)
(* table that nobody writes to and that may hold foreign items, with an id *)
(* index that may hold entries that point nowhere.  The client may keep    *)
(* the outcome of a lookup to compare a scan with.                         *)
(***************************************************************************)
\* The caller takes the outcome of the lookup that finished, and keeps it.
KeepLooked ==
    /\ lastCall.op = "fetchEvent"
    /\ previous' = lastCall
    /\ lastCall' = NoCall
    /\ ScanIdle
    /\ UNCHANGED <<storeVars, clock, uuids, created, arg, inflight, acknowledged,
                   handlerVars>>

NextDefects ==
    \/ \E id \in LookupIds : FetchEvent(id)
    \/ KeepLooked
    \/ FetchAllEvents
    \/ \E subject \in Subjects : FetchEventsForSubject(subject)
    \/ NextPage
    \/ Return

SpecDefects == InitLookup /\ [][NextDefects]_vars

(***************************************************************************)
(* SpecHandler: invocations of PublishHandler.handle, one after another.   *)
(***************************************************************************)
NextHandler ==
    \/ \E batch \in Batches : Handle(batch)
    \/ ProcessRecord
    \/ HandleReturns
    \/ Respond

SpecHandler == Init /\ [][NextHandler]_vars

\* An invocation is not held up: the loop of handle takes its next turn, and
\* handle returns when the loop is through.
SpecInvocation ==
    Init /\ [][NextHandler]_vars /\ WF_vars(ProcessRecord) /\ WF_vars(HandleReturns)

(***************************************************************************)
(* SpecFeed: the stream of the table as the event source of handle.  The   *)
(* table holds a few items, of which one does not parse; the stream holds  *)
(* one INSERT record for each, with the new image and a sequence number,   *)
(* and nothing has been delivered yet.  The stream invokes handle with the *)
(* records at its checkpoint, one invocation at a time, and keeps doing so *)
(* while records are left; a publish call of a record that is tried again  *)
(* and again is accepted at some time.                                     *)
(***************************************************************************)
StreamItems ==
    { ToDynamo(event).dynamoEvent :
        event \in { e \in ValidEvents : e.id = "e01" /\ e.type = Borrowed } }
      \cup { [SampleItem EXCEPT !.id = "1"] }

InsertRecord(item, i) ==
    [eventName |-> "INSERT", hasNewImage |-> TRUE, NewImage |-> item,
     SequenceNumber |-> SequenceNumbers[i]]

InitFeed ==
    /\ \E items \in SeqsUpTo(StreamItems, MaxStored) :
          /\ DistinctKeys(items)
          /\ table = { items[i] : i \in DOMAIN items }
          /\ feed = [i \in DOMAIN items |-> InsertRecord(items[i], i)]
    /\ idIndex = IndexOf(table)
    /\ clock = 9
    /\ uuids = 0
    /\ NoHistory
    /\ lastCall = NoCall
    /\ ScanAtRest
    /\ hpc = "idle"
    /\ records = <<>>
    /\ position = 0
    /\ batchItemFailures = <<>>
    /\ attempts = <<>>
    /\ published = <<>>
    /\ topic = {}

NextFeed ==
    \/ Deliver
    \/ ProcessRecord
    \/ HandleReturns
    \/ Respond

SpecFeed ==
    /\ InitFeed
    /\ [][NextFeed]_vars
    /\ WF_vars(NextFeed)
    /\ \A i \in 1..Len(SequenceNumbers) : SF_vars(Accepted(SequenceNumbers[i]))

(***************************************************************************)
(* SpecWriters: several EventDB instances that write to one table at the   *)
(* same time.  A call is at rest between its steps at the await of         *)
(* dynamodb.send; the store applies the puts of the requests it holds one  *)
(* at a time, in the order of each request and in any order between the    *)
(* requests, and a call resolves after the store went through its request. *)
(***************************************************************************)
WriterEvents ==
    { e \in ValidEvents : e.id = "e01" /\ e.subject = "b111" /\ e.type = Borrowed }
WriterCandidates == { c \in Candidates : c.subject = "b111" /\ c.type = Borrowed }

\* The puts the store holds and has not gone through yet.
Pending(w) == IF inflight[w] = NoCall THEN 0 ELSE Len(inflight[w].pending)
RECURSIVE PendingUpTo(_)
PendingUpTo(w) == IF w = 0 THEN 0 ELSE Pending(w) + PendingUpTo(w - 1)

\* The request of a call is out: nothing of it is applied yet.
Sent(w, op, putRequests) ==
    /\ inflight[w] = NoCall
    /\ Cardinality(table) + PendingUpTo(NumWriters) + Len(putRequests) <= MaxStored
    /\ DistinctKeys(putRequests)
    /\ inflight' = [inflight EXCEPT ![w] = [op |-> op, pending |-> putRequests,
                                            taken |-> <<>>]]

\* addEvents of writer w, up to the await of dynamodb.send
BeginAddEvents(w, events) ==
    LET conv == [i \in DOMAIN events |-> ToDynamo(events[i])] IN
    /\ \A i \in DOMAIN events : ~conv[i].error
    /\ Sent(w, "addEvents", [i \in DOMAIN events |-> conv[i].dynamoEvent])
    /\ UNCHANGED <<storeVars, clock, uuids, created, arg, previous, acknowledged,
                   lastCall, scanVars, handlerVars>>

\* addNewEvents of writer w, up to the await of dynamodb.send
BeginAddNewEvents(w, candidates) ==
    LET n == Len(candidates) IN
    /\ uuids + n <= MaxUuids
    /\ uuids' = uuids + n
    /\ \E ts \in Readings(n) :
         LET made == [i \in 1..n |-> New(candidates[i], UuidPool[uuids + i], ts[i])] IN
         /\ \A i \in 1..n : ~made[i].error
         /\ clock' = ts[n]
         /\ created' = created \o [i \in 1..n |-> made[i].event]
         /\ Sent(w, "addNewEvents",
                 [i \in 1..n |-> ToDynamo(made[i].event).dynamoEvent])
    /\ UNCHANGED <<storeVars, arg, previous, acknowledged, lastCall, scanVars,
                   handlerVars>>

\* The store applies the next put of the request of writer w.
StorePut(w) ==
    /\ inflight[w] # NoCall
    /\ inflight[w].pending # <<>>
    /\ LET item == Head(inflight[w].pending) IN
         /\ table' = Put(table, item)
         /\ idIndex' = UpdateIndex(idIndex, <<item>>)
         /\ inflight' = [inflight EXCEPT ![w].pending = Tail(@),
                                         ![w].taken = Append(@, item)]
    /\ UNCHANGED <<clock, uuids, created, arg, previous, acknowledged, lastCall,
                   scanVars, handlerVars>>

\* The store leaves the next put of the request of writer w unprocessed.
StoreLeaves(w) ==
    /\ inflight[w] # NoCall
    /\ inflight[w].pending # <<>>
    /\ inflight' = [inflight EXCEPT ![w].pending = Tail(@)]
    /\ UNCHANGED <<storeVars, clock, uuids, created, arg, previous, acknowledged,
                   lastCall, scanVars, handlerVars>>

\* dynamodb.send resolves and with it the call of writer w: the items the
\* store took for it are written as far as the writer can tell.
Resolve(w) ==
    /\ inflight[w] # NoCall
    /\ inflight[w].pending = <<>>
    /\ acknowledged' = acknowledged
                           \cup { inflight[w].taken[i] : i \in DOMAIN inflight[w].taken }
    /\ inflight' = [inflight EXCEPT ![w] = NoCall]
    /\ UNCHANGED <<storeVars, clock, uuids, created, arg, previous, lastCall,
                   scanVars, handlerVars>>

NextWriters ==
    \/ \E w \in Writers, events \in SeqsUpTo(WriterEvents, MaxBatch) :
          BeginAddEvents(w, events)
    \/ \E w \in Writers, candidates \in SeqsUpTo(WriterCandidates, MaxBatch) :
          BeginAddNewEvents(w, candidates)
    \/ \E w \in Writers : StorePut(w)
    \/ \E w \in Writers : StoreLeaves(w)
    \/ \E w \in Writers : Resolve(w)

SpecWriters == Init /\ [][NextWriters]_vars

(***************************************************************************)
(* SpecInterleaved: one client that scans while other writers append: the  *)
(* store applies a put of another writer before a scan, between two of its *)
(* page requests or after it.                                              *)
(***************************************************************************)
OtherEvents == { e \in ValidEvents : e.subject = "b111" /\ e.type = Borrowed }

\* The store applies a put of the request of another writer.
PutByOther(event) ==
    LET item == ToDynamo(event).dynamoEvent IN
    /\ Cardinality(Put(table, item)) <= MaxStored
    /\ table' = Put(table, item)
    /\ idIndex' = UpdateIndex(idIndex, <<item>>)
    /\ UNCHANGED <<writerVars, lastCall, scanVars, handlerVars>>

NextInterleaved ==
    \/ \E event \in OtherEvents : PutByOther(event)
    \/ FetchAllEvents
    \/ \E subject \in Subjects : FetchEventsForSubject(subject)
    \/ NextPage
    \/ Return

SpecInterleaved == Init /\ [][NextInterleaved]_vars

(***************************************************************************)
(* SpecCreate: addNewEvents called with one list of candidates, again and  *)
(* again, so that the list is there to compare the result with.            *)
(***************************************************************************)
InitCreate ==
    /\ table = {}
    /\ idIndex = {}
    /\ clock = 9
    /\ uuids = 0
    /\ \E candidates \in SeqsUpTo(Candidates, MaxBatch) : History(candidates)
    /\ lastCall = NoCall
    /\ ScanAtRest
    /\ HandlerIdle

NextCreate ==
    \/ AddNewEvents(arg)
    \/ Return

SpecCreate == InitCreate /\ [][NextCreate]_vars

(***************************************************************************)
(* SpecRejected: addNewEvents or addEvents called with one list, in which    *)
(* several elements may fail for different reasons, so that the error      *)
(* thrown can be compared with the list.                                   *)
(***************************************************************************)
RejectedCandidates ==
    { [type |-> Borrowed, subject |-> "b111", source |-> Library, data |-> Payload],
      [type |-> <<"a">>, subject |-> "b111", source |-> Library, data |-> Payload],
      [type |-> Borrowed, subject |-> "", source |-> "not-a-url", data |-> Payload] }

RejectedEvents ==
    { SampleEvent,
      [SampleEvent EXCEPT !.id = "e02", !.type = Returned],
      [SampleEvent EXCEPT !.id = "1"],
      [SampleEvent EXCEPT !.time = Date(0), !.data = NotAnObject] }

IsCandidates(list) == \A i \in DOMAIN list : "id" \notin DOMAIN list[i]

InitRejected ==
    /\ table = {}
    /\ idIndex = {}
    /\ clock = 9
    /\ uuids = 0
    /\ \E list \in SeqsUpTo(RejectedCandidates, MaxBatch)
                     \cup SeqsUpTo(RejectedEvents, MaxBatch) : History(list)
    /\ lastCall = NoCall
    /\ ScanAtRest
    /\ HandlerIdle

NextRejected ==
    \/ IsCandidates(arg) /\ AddNewEvents(arg)
    \/ ~IsCandidates(arg) /\ AddEvents(arg)
    \/ Return

SpecRejected == InitRejected /\ [][NextRejected]_vars

(***************************************************************************)
(* SpecReread: one client that appends and scans, as in SpecScan, and that *)
(* may keep the result of a scan to compare the next one with.             *)
(***************************************************************************)
\* The caller takes the result of the scan that finished, and keeps it together
\* with what the table was and how many page requests it took.
KeepResult ==
    /\ pc = "done"
    /\ previous' = [op |-> "scan", query |-> query, validItems |-> validItems,
                    invalidItems |-> invalidItems, table |-> table,
                    requests |-> Len(pages)]
    /\ lastCall' = NoCall
    /\ ScanIdle
    /\ UNCHANGED <<storeVars, clock, uuids, created, arg, inflight, acknowledged,
                   handlerVars>>

RereadEvents == { e \in ValidEvents : e.id = "e01" /\ e.type = Borrowed }

NextReread ==
    \/ \E event \in RereadEvents : AddEvents(<<event>>)
    \/ FetchAllEvents
    \/ \E subject \in Subjects : FetchEventsForSubject(subject)
    \/ NextPage
    \/ KeepResult
    \/ Return

SpecReread == InitScan /\ [][NextReread]_vars

(***************************************************************************)
(* SpecPaging: scans of a table that nobody writes to.  The loop of        *)
(* paginatedQuery is not held up: once the answer to a page request is     *)
(* there, the next turn is taken.                                          *)
(***************************************************************************)
PagingItems ==
    { ToDynamo(event).dynamoEvent : event \in RereadEvents }
      \cup { [SampleItem EXCEPT !.id = "1"] }

InitPaging ==
    /\ table \in { t \in SUBSET PagingItems :
                     /\ Cardinality(t) <= MaxStored
                     /\ \A x, y \in t : PrimaryKey(x) = PrimaryKey(y) => x = y }
    /\ idIndex = IndexOf(table)
    /\ clock = 9
    /\ uuids = 0
    /\ NoHistory
    /\ lastCall = NoCall
    /\ ScanAtRest
    /\ HandlerIdle

NextPaging ==
    \/ FetchAllEvents
    \/ \E subject \in Subjects : FetchEventsForSubject(subject)
    \/ \E subject \in Subjects, type \in Types :
           FetchEventsForSubjectAndType(subject, type)
    \/ NextPage
    \/ Return

SpecPaging == InitPaging /\ [][NextPaging]_vars /\ WF_vars(NextPage)

(***************************************************************************)
(* SpecCodec: the codec and the gate of addEvents on one event.  The event *)
(* is drawn from every combination of good and bad values of the six       *)
(* fields; toDynamo is applied to it, fromDynamo to what toDynamo made of  *)
(* it, and addEvents is called with it.                                    *)
(***************************************************************************)
CodecEvents ==
    { [id |-> i, type |-> ty, subject |-> s, source |-> src, time |-> Date(t),
       data |-> d] :
          i \in Ids \cup {"1"}, ty \in Types \cup {<<"a">>},
          s \in Subjects \cup {""}, src \in {Library, "not-a-url"},
          t \in Times \cup {0}, d \in {Payload, NotAnObject} }

\* const { error, dynamoEvent } = Cloudevent.toDynamo(event)
ToDynamoCall ==
    /\ AtRest
    /\ lastCall' = [op |-> "toDynamo", result |-> ToDynamo(arg)]
    /\ UNCHANGED <<storeVars, writerVars, scanVars, handlerVars>>

\* const { error, event } = Cloudevent.fromDynamo(dynamoEvent)
FromDynamoCall ==
    /\ lastCall.op = "toDynamo"
    /\ ~lastCall.result.error
    /\ lastCall' = [op |-> "fromDynamo", item |-> lastCall.result.dynamoEvent,
                    result |-> FromDynamo(lastCall.result.dynamoEvent)]
    /\ UNCHANGED <<storeVars, writerVars, scanVars, handlerVars>>

InitCodec ==
    /\ table = {}
    /\ idIndex = {}
    /\ clock = 9
    /\ uuids = 0
    /\ \E event \in CodecEvents : History(event)
    /\ lastCall = NoCall
    /\ ScanAtRest
    /\ HandlerIdle

NextCodec ==
    \/ ToDynamoCall
    \/ FromDynamoCall
    \/ AddEvents(<<arg>>)
    \/ Return

SpecCodec == InitCodec /\ [][NextCodec]_vars

(***************************************************************************)
(* SpecResults: the three functions of the codec, each called with one     *)
(* argument of its kind: a candidate, an event, or a record as the table   *)
(* may hold it, with derived keys or logical fields that may be broken.    *)
(* An attribute that is "" or <<>> is one the record lacks.                *)
(***************************************************************************)
ResultCandidates ==
    Candidates \cup
    { [type |-> <<"b">>, subject |-> "b111", source |-> Library, data |-> Payload],
      [type |-> Borrowed, subject |-> "b111", source |-> Library, data |-> NotAnObject] }

ResultItems ==
    { SampleItem,
      [SampleItem EXCEPT !.time_type = <<>>],
      [SampleItem EXCEPT !.pk_all = ""],
      [SampleItem EXCEPT !.time_type = TimeType(9, Borrowed)],
      [SampleItem EXCEPT !.time_type = <<>>, !.pk_all = "", !.type = <<>>,
                         !.subject = "", !.source = ""],
      [SampleItem EXCEPT !.subject = ""],
      [SampleItem EXCEPT !.time = 0, !.time_type = TimeType(0, Borrowed)],
      [SampleItem EXCEPT !.id = "1", !.pk_all = ""] }

IsItem(x) == "pk_all" \in DOMAIN x
IsCandidate(x) == "id" \notin DOMAIN x

\* const { event, error } = Cloudevent.new(candidate)
NewCall ==
    /\ AtRest
    /\ IsCandidate(arg)
    /\ uuids + 1 <= MaxUuids
    /\ uuids' = uuids + 1
    /\ \E ts \in Readings(1) :
         /\ clock' = ts[1]
         /\ lastCall' = [op |-> "new", result |-> New(arg, UuidPool[uuids + 1], ts[1])]
    /\ UNCHANGED <<storeVars, created, callerVars, scanVars, handlerVars>>

\* const { event, error } = Cloudevent.fromDynamo(item) on a record of the table
FromDynamoItem ==
    /\ AtRest
    /\ IsItem(arg)
    /\ lastCall' = [op |-> "fromDynamo", item |-> arg, result |-> FromDynamo(arg)]
    /\ UNCHANGED <<storeVars, writerVars, scanVars, handlerVars>>

InitResults ==
    /\ table = {}
    /\ idIndex = {}
    /\ clock = 9
    /\ uuids = 0
    /\ \E x \in ResultCandidates \cup CodecEvents \cup ResultItems : History(x)
    /\ lastCall = NoCall
    /\ ScanAtRest
    /\ HandlerIdle

NextResults ==
    \/ NewCall
    \/ ~IsCandidate(arg) /\ ~IsItem(arg) /\ ToDynamoCall
    \/ FromDynamoCall
    \/ FromDynamoItem
    \/ Return

SpecResults == InitResults /\ [][NextResults]_vars

(***************************************************************************)
(* SpecConcurrent: invocations of handle that run at the same time on one  *)
(* PublishHandler and one Publisher, each with the next records of the     *)
(* stream as its batch.  An invocation is at rest between its turns at the *)
(* await of processRecord; its locals are the list of failures and where   *)
(* the loop is.  The fields of the handler and of the publisher (logger,   *)
(* sns, config) are set in the constructor and not written after.          *)
(***************************************************************************)
Invocations == 1..NumWriters

\* The locals of one invocation of handle, and the history of its turns.
Locals(batch, at, failures, turns, sent) ==
    [op |-> "handle", records |-> batch, position |-> at,
     batchItemFailures |-> failures, attempts |-> turns, published |-> sent]

\* handle is invoked with the next records of the stream while other
\* invocations run.
Invoke(n) ==
    /\ inflight[n] = NoCall
    /\ \E k \in 1..Min(MaxRecords, Len(feed)) :
         /\ inflight' = [inflight EXCEPT
                           ![n] = Locals(SubSeq(feed, 1, k), 1, <<>>, <<>>, <<>>)]
         /\ feed' = SubSeq(feed, k + 1, Len(feed))
    /\ UNCHANGED <<storeVars, clock, uuids, created, arg, previous, acknowledged,
                   lastCall, scanVars, hpc, records, position, batchItemFailures,
                   attempts, published, topic>>

\* One turn as it would be if the list of failures were a field of the handler
\* that the invocations share, for comparison.
TurnSharedFailures(n) ==
    /\ inflight[n] # NoCall
    /\ inflight[n].position <= Len(inflight[n].records)
    /\ LET call == inflight[n]
           record == call.records[call.position]
       IN \E result \in ProcessRecordOutcomes(record) :
            /\ inflight' =
                 [m \in Invocations |->
                    IF inflight[m] = NoCall THEN NoCall
                    ELSE LET failures ==
                               IF result.outcome = "threw" /\ record.SequenceNumber # ""
                               THEN Append(inflight[m].batchItemFailures,
                                           [itemIdentifier |-> record.SequenceNumber])
                               ELSE inflight[m].batchItemFailures
                         IN IF m = n
                            THEN Locals(call.records, call.position + 1, failures,
                                        Append(call.attempts,
                                               Attempt(call.position, record, result)),
                                        call.published \o result.sent)
                            ELSE [inflight[m] EXCEPT !.batchItemFailures = failures]]
            /\ topic' = topic \cup { result.sent[k] : k \in DOMAIN result.sent }
    /\ UNCHANGED <<storeVars, clock, uuids, created, arg, previous, acknowledged,
                   lastCall, scanVars, hpc, records, position, batchItemFailures,
                   attempts, published, feed>>

\* One turn of the loop of invocation n: processRecord on the record at hand,
\* and the catch clause if it threw.
Turn(n) ==
    /\ inflight[n] # NoCall
    /\ inflight[n].position <= Len(inflight[n].records)
    /\ LET call == inflight[n]
           record == call.records[call.position]
       IN \E result \in ProcessRecordOutcomes(record) :
            /\ inflight' =
                 [inflight EXCEPT
                    ![n] = Locals(call.records, call.position + 1,
                                  IF result.outcome = "threw" /\ record.SequenceNumber # ""
                                  THEN Append(call.batchItemFailures,
                                              [itemIdentifier |-> record.SequenceNumber])
                                  ELSE call.batchItemFailures,
                                  Append(call.attempts,
                                         Attempt(call.position, record, result)),
                                  call.published \o result.sent)]
            /\ topic' = topic \cup { result.sent[k] : k \in DOMAIN result.sent }
    /\ UNCHANGED <<storeVars, clock, uuids, created, arg, previous, acknowledged,
                   lastCall, scanVars, hpc, records, position, batchItemFailures,
                   attempts, published, feed>>

\* The loop of invocation n is through: return { batchItemFailures }.
Returns(n) ==
    /\ inflight[n] # NoCall
    /\ inflight[n].position > Len(inflight[n].records)
    /\ acknowledged' = acknowledged \cup { inflight[n] }
    /\ inflight' = [inflight EXCEPT ![n] = NoCall]
    /\ UNCHANGED <<storeVars, clock, uuids, created, arg, previous, lastCall,
                   scanVars, handlerVars>>

NextConcurrent ==
    \/ \E n \in Invocations : Invoke(n)
    \/ \E n \in Invocations : Turn(n)
    \/ \E n \in Invocations : Returns(n)

SpecConcurrent == InitFeed /\ [][NextConcurrent]_vars

(***************************************************************************)
(* Claims about the write path, checked under Spec and SpecNew.            *)
(***************************************************************************)
SomeFailed(call) == \E i \in DOMAIN call.converted : ~call.converted[i]
SomeConverted(call) == \E i \in DOMAIN call.converted : call.converted[i]

\* C1: the log is append-only: no step of the system removes or replaces an
\* item that the table holds, so every event once written stays stored,
\* unchanged, also when a later event has the same subject, time and type.
C1_AppendOnly == [][table \subseteq table']_vars

\* C3: addEvents is all-or-nothing at the validation stage: a call whose batch
\* has an event that fails conversion is rejected with 'Failed to convert events
\* to DynamoDB format', sends no request and leaves the table and its id index
\* as they were, whatever valid events the batch also holds.
C3_AddEventsAllOrNothing ==
    [][(lastCall'.op = "addEvents" /\ SomeFailed(lastCall'))
         => /\ lastCall'.outcome = "rejected"
            /\ lastCall'.error = "Failed to convert events to DynamoDB format"
            /\ lastCall'.sends = 0
            /\ table' = table
            /\ idIndex' = idIndex]_vars

C3_Witness ==
    /\ lastCall.op = "addEvents"
    /\ lastCall.outcome = "rejected"
    /\ SomeFailed(lastCall)
    /\ SomeConverted(lastCall)
    /\ table # {}

\* C4: addNewEvents rejects before it touches storage: a call whose list has a
\* candidate that fails validation is rejected with 'Failed to create events',
\* returns no events, sends no request and leaves the table as it was.
C4_AddNewEventsRejectsFirst ==
    [][(lastCall'.op = "addNewEvents" /\ SomeFailed(lastCall'))
         => /\ lastCall'.outcome = "rejected"
            /\ lastCall'.error = "Failed to create events"
            /\ lastCall'.returned = <<>>
            /\ lastCall'.sends = 0
            /\ table' = table
            /\ idIndex' = idIndex]_vars

C4_Witness ==
    /\ lastCall.op = "addNewEvents"
    /\ lastCall.outcome = "rejected"
    /\ SomeFailed(lastCall)
    /\ SomeConverted(lastCall)
    /\ table # {}
(***************************************************************************)
(* Claims about the scans (SpecScan).                                      *)
(***************************************************************************)
RECURSIVE Flat(_)
Flat(ps) == IF ps = <<>> THEN <<>> ELSE ps[1].Items \o Flat(Tail(ps))

Range(seq) == { seq[i] : i \in DOMAIN seq }
EventOf(item) == FromDynamo(item).event
NonDecreasingTime(evs) ==
    \A i, j \in DOMAIN evs : i < j => GetTime(evs[i].time) <= GetTime(evs[j].time)
Done(index) == pc = "done" /\ query.index = index
SameInstant(a, b) ==
    /\ Parses(a) /\ Parses(b)
    /\ a.subject = b.subject /\ a.time = b.time /\ a.type # b.type

\* C2: two events with the same subject and the same time but different types
\* have distinct primary keys: storing one never displaces the other (an item
\* leaves the table only for an item of the same subject, time and type), both
\* are stored side by side, and a completed fetchEventsForSubject of their
\* subject and a completed fetchAllEvents return both.
C2_CollisionFree ==
    /\ [](\A a, b \in table : SameInstant(a, b) =>
            /\ PrimaryKey(a) # PrimaryKey(b)
            /\ Done("AllEventsByTime") =>
                 {EventOf(a), EventOf(b)} \subseteq Range(validItems)
            /\ (Done("table") /\ query.subject = a.subject) =>
                 {EventOf(a), EventOf(b)} \subseteq Range(validItems))
    /\ [][\A a \in table : a \notin table' =>
            \E c \in table' : /\ c.subject = a.subject
                              /\ c.time = a.time
                              /\ c.type = a.type]_vars

C2_Witness ==
    /\ Done("table")
    /\ \E a, b \in table :
         /\ SameInstant(a, b)
         /\ query.subject = a.subject
         /\ {EventOf(a), EventOf(b)} \subseteq Range(validItems)

\* C5: a completed fetchAllEvents returns its valid events in non-decreasing
\* order of time, and every stored item that parses into an event is among
\* them.
C5_AllEventsByTime ==
    Done("AllEventsByTime") =>
        /\ NonDecreasingTime(validItems)
        /\ \A x \in table : Parses(x) => EventOf(x) \in Range(validItems)

C5_Witness ==
    /\ Done("AllEventsByTime")
    /\ Len(validItems) >= 3
    /\ \E i, j \in DOMAIN validItems :
         /\ GetTime(validItems[i].time) < GetTime(validItems[j].time)
         /\ validItems[i].subject = validItems[j].subject
    /\ \E i, j \in DOMAIN validItems : validItems[i].subject # validItems[j].subject

\* C6: a completed fetchEventsForSubject(s) returns every stored item whose
\* subject is s and no other item, and its valid events are in non-decreasing
\* order of time, also when the timestamps differ in their number of digits.
C6_SubjectInTimeOrder ==
    Done("table") =>
        /\ Range(Flat(pages)) = { x \in table : x.subject = query.subject }
        /\ Range(validItems) \cup Range(invalidItems) =
             { EventOf(x) : x \in { y \in table : y.subject = query.subject /\ Parses(y) } }
             \cup { x \in table : x.subject = query.subject /\ ~Parses(x) }
        /\ NonDecreasingTime(validItems)

\* C7: the page requests of one scan form a chain (the first has no cursor,
\* each later one starts at the cursor the answer before it named, and the
\* scan ends exactly when an answer names no cursor), the scan returns the
\* items of all its pages, each once, with the valid events in page order and
\* then in-page order, and a completed scan has seen each matching item once.
C7_PaginationLossless ==
    pc # "idle" =>
        /\ pages # <<>>
        /\ pages[1].ExclusiveStartKey = NoKey
        /\ \A i \in 2..Len(pages) :
             /\ pages[i - 1].LastEvaluatedKey # NoKey
             /\ pages[i].ExclusiveStartKey = pages[i - 1].LastEvaluatedKey
        /\ pc = "done" <=> pages[Len(pages)].LastEvaluatedKey = NoKey
        /\ lastEvaluatedKey = pages[Len(pages)].LastEvaluatedKey
        /\ Len(validItems) + Len(invalidItems) = Len(Flat(pages))
        /\ LET good == SelectSeq(Flat(pages), Parses)
           IN validItems = [i \in DOMAIN good |-> EventOf(good[i])]
        /\ pc = "done" =>
             /\ Range(Flat(pages)) = Matches(query, table)
             /\ Len(Flat(pages)) = Cardinality(Matches(query, table))

C7_Witness ==
    /\ pc = "done"
    /\ Len(pages) >= 3
    /\ \E i \in DOMAIN pages : Len(pages[i].Items) = 2
    /\ Len(validItems) >= 2
    /\ invalidItems # <<>>

\* C8: every item an answer holds lands in exactly one of the two lists:
\* parsed in validItems if it parses, as it is in invalidItems if not; none
\* is dropped, and an item that does not parse stops nothing: the items after
\* it are split as well and the scan completes.
C8_ValidInvalidSplit ==
    pc # "idle" =>
        /\ invalidItems = SelectSeq(Flat(pages), LAMBDA x : ~Parses(x))
        /\ \A i \in DOMAIN validItems :
             \E x \in Range(Flat(pages)) : Parses(x) /\ validItems[i] = EventOf(x)
        /\ \A x \in Range(Flat(pages)) :
             IF Parses(x)
             THEN EventOf(x) \in Range(validItems) /\ x \notin Range(invalidItems)
             ELSE x \in Range(invalidItems)
        /\ \A i \in DOMAIN pages : \E answer \in QueryAnswers(query, table, pages[i].ExclusiveStartKey) :
             answer.Items = pages[i].Items

C8_Witness ==
    /\ pc = "done"
    /\ Len(Flat(pages)) >= 3
    /\ ~Parses(Flat(pages)[1])
    /\ Parses(Flat(pages)[2])
    /\ ~Parses(Flat(pages)[3])
    /\ Len(invalidItems) = 2
    /\ Len(validItems) = 1

(***************************************************************************)
(* Claims about the lookup by id (SpecLookup).                             *)
(***************************************************************************)
Entries(id) == { e \in idIndex : e.id = id }

\* C9 as stated: fetchEvent(id) returns null if and only if the id index has
\* no entry for id, and then sends one request only; if the entry it found
\* names a key under which the table holds nothing, it fails and does not
\* return null; in every other case it returns the event stored under the key.
C9_ThreeOutcomes ==
    lastCall.op = "fetchEvent" =>
        /\ lastCall.outcome = "null" <=> Entries(lastCall.id) = {}
        /\ Entries(lastCall.id) = {} => lastCall.sends = 1
        /\ (Entries(lastCall.id) # {} /\ Stored(table, lastCall.eventKeys) = {}) =>
             lastCall.outcome = "error"
        /\ (Entries(lastCall.id) # {} /\ Stored(table, lastCall.eventKeys) # {}) =>
             /\ lastCall.outcome = "event"
             /\ \E x \in Stored(table, lastCall.eventKeys) :
                  Parses(x) /\ lastCall.returned = <<EventOf(x)>>

\* C9: fetchEvent(id) returns null if and only if the id index has no entry
\* for id, and then sends one request only; if the entry found lacks subject
\* or time_type it fails after that one request; if the table holds nothing
\* under the key of the entry it fails with the not-found-in-database error
\* and does not return null; if the record under the key does not parse it
\* fails with the event-is-invalid error; and only when the record parses it
\* returns the event of that record.
C9_LookupOutcomes ==
    lastCall.op = "fetchEvent" =>
        /\ lastCall.outcome = "null" <=> Entries(lastCall.id) = {}
        /\ Entries(lastCall.id) = {} => lastCall.sends = 1
        /\ Entries(lastCall.id) # {} =>
             /\ lastCall.eventKeys \in Entries(lastCall.id)
             /\ IF lastCall.eventKeys.subject = "" \/ lastCall.eventKeys.time_type = <<>>
                THEN /\ lastCall.outcome = "error"
                     /\ lastCall.error = MissingKeys
                     /\ lastCall.sends = 1
                ELSE /\ lastCall.sends = 2
                     /\ IF Stored(table, lastCall.eventKeys) = {}
                        THEN lastCall.outcome = "error" /\ lastCall.error = NotFound
                        ELSE \E x \in Stored(table, lastCall.eventKeys) :
                               IF Parses(x)
                               THEN /\ lastCall.outcome = "event"
                                    /\ lastCall.returned = <<EventOf(x)>>
                               ELSE /\ lastCall.outcome = "error"
                                    /\ lastCall.error = Invalid
                                    /\ lastCall.returned = <<>>

C9_Witness ==
    /\ lastCall.op = "fetchEvent"
    /\ lastCall.outcome = "error"
    /\ lastCall.error = Invalid
    /\ Stored(table, lastCall.eventKeys) # {}
    /\ \E e \in idIndex : Stored(table, e) = {} /\ e.subject # ""
    /\ \E x \in table : Parses(x)

(***************************************************************************)
(* Claims about the handler (SpecHandler).                                 *)
(***************************************************************************)
\* C10: handle calls processRecord on every record of the batch once, in
\* batch order: while the loop runs the calls made are those on the records
\* before the position of the loop, in order, whether they threw or not, and
\* when handle returns there has been one call per record of the batch.
C10_EveryRecordOnce ==
    hpc # "idle" =>
        /\ Len(attempts) = position - 1
        /\ Len(attempts) <= Len(records)
        /\ \A i \in DOMAIN attempts :
             attempts[i].position = i /\ attempts[i].record = records[i]
        /\ hpc = "done" => Len(attempts) = Len(records)

C10_Witness ==
    /\ hpc = "done"
    /\ Len(records) = 2
    /\ Len(attempts) = 2
    /\ attempts[1].outcome = "threw"
    /\ attempts[2].log = "Published event"

\* The sequence identifiers that handle returned.
FailedIdentifiers == { batchItemFailures[k].itemIdentifier : k \in DOMAIN batchItemFailures }

\* Record i of the batch is named in the response of handle.
Reported(i) ==
    /\ records[i].SequenceNumber # ""
    /\ records[i].SequenceNumber \in FailedIdentifiers

Publishable(record) ==
    record.eventName = "INSERT" /\ record.hasNewImage /\ Parses(record.NewImage)

\* C11: when handle returns, a record of the batch is named in
\* batchItemFailures if and only if processRecord threw for it, also when the
\* record carries no SequenceNumber, and there is one entry per record that
\* threw.
C11_FailuresAreTheThrown ==
    hpc = "done" =>
        /\ \A i \in DOMAIN records : attempts[i].outcome = "threw" <=> Reported(i)
        /\ Len(batchItemFailures) =
             Cardinality({ i \in DOMAIN records : attempts[i].outcome = "threw" })

\* C12: when handle returns, the identifiers it returns are exactly the
\* sequence identifiers of the INSERT records with an image that parses whose
\* publish call failed (a record without a sequence identifier has none to
\* contribute); a record that is not an INSERT, has no image or has an image
\* that does not parse is never named.
C12_FailedAreTransportFailures ==
    hpc = "done" =>
        /\ FailedIdentifiers =
             { records[i].SequenceNumber :
                 i \in { j \in DOMAIN records : /\ Publishable(records[j])
                                                /\ attempts[j].transport = "failed" } }
             \ {""}
        /\ \A i \in DOMAIN records : ~Publishable(records[i]) => ~Reported(i)

C12_Witness ==
    /\ hpc = "done"
    /\ Len(records) = 2
    /\ \E i, j \in DOMAIN records :
         /\ attempts[i].transport = "failed"
         /\ attempts[j].log = "Failed to parse event"
         /\ records[j].SequenceNumber # ""
         /\ batchItemFailures = <<[itemIdentifier |-> records[i].SequenceNumber]>>

\* C13: when the publish call fails for an INSERT record with an image that
\* parses, processRecord throws instead of returning, it does not log
\* 'Published event', and nothing of that call counts as published.
C13_TransportFailurePropagates ==
    \A i \in DOMAIN attempts :
        (Publishable(attempts[i].record) /\ attempts[i].transport = "failed") =>
            /\ attempts[i].outcome = "threw"
            /\ attempts[i].level # "info"
            /\ attempts[i].log # "Published event"
            /\ \A k \in DOMAIN attempts[i].calls :
                 \/ \A n \in DOMAIN published : published[n] # attempts[i].calls[k]
                 \/ \E j \in DOMAIN attempts : j # i /\ attempts[j].transport = "accepted"

C13_Witness ==
    /\ hpc = "done"
    /\ \E i \in DOMAIN attempts :
         /\ Publishable(attempts[i].record)
         /\ attempts[i].transport = "failed"
         /\ attempts[i].outcome = "threw"
         /\ Len(attempts[i].calls) = 1
    /\ published = <<>>

\* C14: for a record whose event name is not INSERT (MODIFY, REMOVE or none),
\* with or without an image, processRecord returns without throwing, logs one
\* error, makes no publish call, and the record is not named in the response
\* of handle.
C14_NonInsertSkipped ==
    \A i \in DOMAIN attempts :
        attempts[i].record.eventName # "INSERT" =>
            /\ attempts[i].outcome = "returned"
            /\ attempts[i].level = "error"
            /\ attempts[i].calls = <<>>
            /\ attempts[i].transport = "none"
            /\ hpc = "done" => ~Reported(i)

C14_Witness ==
    /\ hpc = "done"
    /\ published = <<>>
    /\ batchItemFailures = <<>>
    /\ \E i, j \in DOMAIN attempts :
         /\ attempts[i].record.eventName = ""
         /\ attempts[i].record.hasNewImage
         /\ Parses(attempts[i].record.NewImage)
         /\ attempts[i].record.SequenceNumber # ""
         /\ attempts[j].record.eventName = "REMOVE"
         /\ attempts[i].level = "error" /\ attempts[j].level = "error"

\* C15: for an INSERT record without NewImage, processRecord returns without
\* throwing, logs one error and makes no publish call.
C15_MissingImageSkipped ==
    \A i \in DOMAIN attempts :
        (attempts[i].record.eventName = "INSERT" /\ ~attempts[i].record.hasNewImage) =>
            /\ attempts[i].outcome = "returned"
            /\ attempts[i].level = "error"
            /\ attempts[i].log = "No NewImage found in record"
            /\ attempts[i].calls = <<>>

C15_Witness ==
    \E i \in DOMAIN attempts :
        /\ attempts[i].record.eventName = "INSERT"
        /\ ~attempts[i].record.hasNewImage
        /\ attempts[i].outcome = "returned"
        /\ attempts[i].log = "No NewImage found in record"

\* C16: for an INSERT record whose image does not parse into an event,
\* processRecord returns without throwing, logs one error and makes no publish
\* call; the records after it in the batch are processed all the same, and
\* those the transport accepts are published.
C16_PoisonRecordSkipped ==
    \A i \in DOMAIN attempts :
        LET record == attempts[i].record IN
        (record.eventName = "INSERT" /\ record.hasNewImage /\ ~Parses(record.NewImage)) =>
            /\ attempts[i].outcome = "returned"
            /\ attempts[i].level = "error"
            /\ attempts[i].log = "Failed to parse event"
            /\ attempts[i].calls = <<>>
            /\ hpc = "done" =>
                 /\ Len(attempts) = Len(records)
                 /\ \A j \in (i + 1)..Len(records) :
                      (Publishable(records[j]) /\ attempts[j].transport = "accepted") =>
                          \E n \in DOMAIN published :
                              published[n] = PublishCommand(EventOf(records[j].NewImage))

C16_Witness ==
    /\ hpc = "done"
    /\ Len(records) = 2
    /\ records[1].eventName = "INSERT"
    /\ records[1].hasNewImage
    /\ ~Parses(records[1].NewImage)
    /\ attempts[1].log = "Failed to parse event"
    /\ attempts[2].log = "Published event"
    /\ Len(published) = 1

\* C17: for an INSERT record whose image parses into an event, processRecord
\* makes one publish call, to the configured topic, with the message
\* attributes id (the id of the event), type (its type) and time (its time as
\* an ISO-8601 string), each of data type String, and logs no error.
C17_PublishCall ==
    \A i \in DOMAIN attempts :
        Publishable(attempts[i].record) =>
            LET event == EventOf(attempts[i].record.NewImage) IN
            /\ Len(attempts[i].calls) = 1
            /\ attempts[i].calls[1].TopicArn = TopicArn
            /\ attempts[i].calls[1].MessageAttributes.id =
                 [DataType |-> "String", StringValue |-> event.id]
            /\ attempts[i].calls[1].MessageAttributes.type =
                 [DataType |-> "String", StringValue |-> event.type]
            /\ attempts[i].calls[1].MessageAttributes.time =
                 [DataType |-> "String", StringValue |-> ToISOString(event.time)]
            /\ attempts[i].level # "error"

C17_Witness ==
    \E i \in DOMAIN attempts :
        /\ Publishable(attempts[i].record)
        /\ attempts[i].outcome = "returned"
        /\ attempts[i].calls[1].MessageAttributes.id.StringValue = "e01"
        /\ attempts[i].calls[1].MessageAttributes.time.StringValue =
             <<"1970-01-01T00:00:00.", "0", "1", "0", "Z">>

EventMembers == {"id", "type", "subject", "source", "time", "data"}

C19_AtLeastOnce ==
    /\ \A item \in { x \in StreamItems : Parses(x) } :
          (item \in table) ~> (PublishCommand(EventOf(item)) \in topic)
    /\ [][\A i \in DOMAIN attempts :
             (hpc = "done" /\ hpc' = "idle" /\ attempts[i].transport = "failed")
                 => \E k \in DOMAIN feed' : feed'[k] = attempts[i].record]_vars

C19_Witness ==
    /\ hpc = "idle"
    /\ feed = <<>>
    /\ \E item \in table : ~Parses(item)
    /\ Cardinality({ item \in table : Parses(item) }) >= 2
    /\ \A item \in table : Parses(item) => PublishCommand(EventOf(item)) \in topic

\* C20: ids are unique within the whole store: no two items of the table have
\* the same id, with the same subject or with different subjects, so that
\* AllEventsById has at most one entry for an id.
C20_IdsUnique ==
    /\ \A a, b \in table : a.id = b.id => a = b
    /\ \A e, f \in idIndex : e.id = f.id => e = f

(***************************************************************************)
(* Claims about the codec, checked under SpecCodec.                        *)
(***************************************************************************)
\* The constraints of the schema hold of an event.
Valid(event) == EventSchema([event EXCEPT !.time = GetTime(event.time)])

LogicalFields == {"id", "type", "subject", "source", "time", "data"}

\* C21: round trip: for every valid event, toDynamo succeeds, and fromDynamo
\* of the record toDynamo made succeeds and gives an event with the six
\* logical fields and no other, each equal to the field of the event.
C21_RoundTrip ==
    /\ (lastCall.op = "toDynamo" /\ Valid(arg)) => ~lastCall.result.error
    /\ (lastCall.op = "fromDynamo" /\ Valid(arg)) =>
          /\ lastCall.item = ToDynamo(arg).dynamoEvent
          /\ ~lastCall.result.error
          /\ DOMAIN lastCall.result.event = LogicalFields
          /\ \A f \in LogicalFields : lastCall.result.event[f] = arg[f]

C21_Witness ==
    /\ lastCall.op = "fromDynamo"
    /\ ~lastCall.result.error
    /\ arg.time = Date(10)
    /\ arg.type = Returned
    /\ lastCall.item.time_type = <<"1", "0", "_", "b", ".", "r">>

\* C22: key derivation: the record toDynamo makes of a valid event, and the
\* record addEvents leaves in the table for it, has subject = the event's
\* subject, time_type = "<time in ms>_<type>", pk_all = "all", time = the
\* time in ms, and the event's id, type, source and data; the table holds it
\* under the primary key (subject, time_type), whichever way it got there.
C22_KeyDerivation ==
    LET ms == GetTime(arg.time)
        expected == [subject |-> arg.subject,
                     time_type |-> DecimalDigits(ms) \o <<"_">> \o arg.type,
                     pk_all |-> "all", time |-> ms, id |-> arg.id,
                     type |-> arg.type, source |-> arg.source, data |-> arg.data]
    IN /\ (lastCall.op = "toDynamo" /\ ~lastCall.result.error) =>
             lastCall.result.dynamoEvent = expected
       /\ \A x \in table :
             /\ x = expected
             /\ PrimaryKey(x) = <<arg.subject, expected.time_type>>

C22_Witness ==
    /\ lastCall.op = "addEvents"
    /\ lastCall.stored = 1
    /\ arg.time = Date(10)
    /\ \E x \in table : x.time_type = <<"1", "0", "_", "b", ".", "b">> /\ x.time = 10

\* C23: the byte order of the sort key is the order of time: of two stored
\* records of valid events, the one with the smaller time has the smaller
\* time_type, whatever their types and the number of digits of their times.
C23_LexicalIsChronological ==
    \A a, b \in table :
        (Parses(a) /\ Parses(b) /\ a.time < b.time) => LexLess(a.time_type, b.time_type)

(***************************************************************************)
(* Claims about repeated and concurrent calls.                             *)
(***************************************************************************)
\* C24: idempotent read: a scan does not change the table or its indexes, and
\* a fetchEventsForSubject or fetchAllEvents call that finds the table as the
\* previous call with the same query found it returns the same validItems
\* and the same invalidItems, in the same order, however the store cuts the
\* pages.
C24_IdempotentRead ==
    /\ [](( /\ pc = "done"
            /\ previous.op = "scan"
            /\ previous.query = query
            /\ previous.table = table )
              => /\ validItems = previous.validItems
                 /\ invalidItems = previous.invalidItems)
    /\ [][(pc' # pc \/ pages' # pages) => (table' = table /\ idIndex' = idIndex)]_vars

C24_Witness ==
    /\ pc = "done"
    /\ previous.op = "scan"
    /\ previous.query = query
    /\ previous.table = table
    /\ query.index = "table"
    /\ Len(validItems) >= 2
    /\ Len(invalidItems) >= 1
    /\ Len(pages) # previous.requests

C26_CreatesAndAdds ==
    (lastCall.op = "addNewEvents" /\ lastCall.outcome = "ok") =>
        LET events == lastCall.returned IN
        /\ Len(events) = Len(arg)
        /\ \A i \in DOMAIN events :
              /\ events[i].type = arg[i].type
              /\ events[i].subject = arg[i].subject
              /\ events[i].source = arg[i].source
              /\ events[i].data = arg[i].data
              /\ \E k \in 1..uuids : events[i].id = UuidPool[k]
              /\ GetTime(events[i].time) \in Times
              /\ \A j \in DOMAIN events : i # j => events[i].id # events[j].id
        /\ lastCall.sends = 1
        /\ Len(lastCall.requests) = 1
        /\ Len(lastCall.requests[1]) = Len(events)
        /\ \A i \in DOMAIN events :
              lastCall.requests[1][i] =
                  [id |-> events[i].id, type |-> events[i].type,
                   subject |-> events[i].subject, source |-> events[i].source,
                   data |-> events[i].data, time |-> GetTime(events[i].time),
                   time_type |-> DecimalDigits(GetTime(events[i].time))
                                     \o <<"_">> \o events[i].type,
                   pk_all |-> "all"]

C26_Witness ==
    /\ lastCall.op = "addNewEvents"
    /\ lastCall.outcome = "ok"
    /\ Len(arg) = 2
    /\ arg[1].type # arg[2].type
    /\ arg[1].subject # arg[2].subject
    /\ Len(lastCall.returned) = 2
    /\ Cardinality(table) = 2

\* C27: concurrent writers need no lock: whatever the order in which the
\* store applies the puts of the requests of several writers, every item the
\* store took for a call that resolved is in the table afterwards, also
\* when two writers made an event of one type for one subject in the same
\* millisecond.
C27_NoWriteDestroyed == \A x \in acknowledged : x \in table

\* C28: a scan that other writers append during neither loses nor doubles
\* data: when fetchEventsForSubject or fetchAllEvents is done, every item of
\* its query that the table held at the first page request is in the answers
\* exactly once, and no item is in the answers twice.
C28_NoLossNoDuplicate ==
    pc = "done" =>
        LET got == Flat(pages) IN
        /\ \A x \in Matches(query, snapshot) :
              Cardinality({ i \in DOMAIN got : got[i] = x }) = 1
        /\ \A i, j \in DOMAIN got : i # j => got[i] # got[j]

\* C29: fetchEventsForSubjectAndType(s, t) keeps the contract of the scans:
\* its answers hold every item of the table with subject s and type t, each
\* once, and no other item; the items that parse are in validItems and the
\* others in invalidItems; and validItems is in ascending order of time.
C29_SubjectAndTypeContract ==
    Done("SubjectEventsByType") =>
        LET got == Flat(pages) IN
        /\ Range(got) = { x \in table : x.subject = query.subject /\ x.type = query.type }
        /\ \A i, j \in DOMAIN got : i # j => got[i] # got[j]
        /\ validItems = [i \in DOMAIN SelectSeq(got, Parses) |->
                            EventOf(SelectSeq(got, Parses)[i])]
        /\ invalidItems = SelectSeq(got, LAMBDA x : ~Parses(x))
        /\ NonDecreasingTime(validItems)

\* C30: the schema gates every write: addEvents with one event gets past the
\* validation if and only if the id, the type and the subject of the event
\* have at least 3 characters, its source is a URL, its time is at least
\* 1 ms and its data is a mapping; for an event that breaks any of these the
\* call is rejected, no request is sent and the table and its id index stay
\* empty.
C30_SchemaGatesWrite ==
    lastCall.op = "addEvents" =>
        LET good == /\ Len(arg.id) >= 3
                    /\ Len(arg.type) >= 3
                    /\ Len(arg.subject) >= 3
                    /\ IsUrl(arg.source)
                    /\ GetTime(arg.time) >= 1
                    /\ arg.data.object
        IN /\ good <=> lastCall.outcome # "rejected"
           /\ good => lastCall.sends = 1
           /\ ~good => /\ lastCall.sends = 0
                       /\ table = {}
                       /\ idIndex = {}

C30_Witness ==
    /\ lastCall.op = "addEvents"
    /\ lastCall.outcome = "rejected"
    /\ arg = [SampleEvent EXCEPT !.source = "not-a-url"]
    /\ table = {}

\* The value the schema looks at: an event with its time in ms, a candidate
\* with an id and a time that pass.
Checked(x) ==
    IF "id" \in DOMAIN x
    THEN [id |-> x.id, type |-> x.type, subject |-> x.subject, source |-> x.source,
          time |-> GetTime(x.time), data |-> x.data]
    ELSE [id |-> "u00", type |-> x.type, subject |-> x.subject, source |-> x.source,
          time |-> 1, data |-> x.data]

\* The parts of a joined text between its separators.
RECURSIVE Split(_, _)
Split(text, part) ==
    IF text = <<>> THEN <<part>>
    ELSE IF Head(text) = "; " THEN <<part>> \o Split(Tail(text), <<>>)
    ELSE Split(Tail(text), Append(part, Head(text)))

\* C31: addNewEvents and addEvents look at every element of the list before
\* they fail: the call is rejected exactly if some element is invalid, every
\* element has then been through the codec, and the error thrown joins one
\* message for each invalid element, in the order of the list, so that it has as
\* many messages as the list has invalid elements.
C31_ErrorAggregatesAll ==
    lastCall.op \in {"addNewEvents", "addEvents"} =>
        LET failing == SelectSeq([i \in DOMAIN arg |-> i],
                                 LAMBDA i : Issues(Checked(arg[i])) # <<>>)
        IN /\ failing # <<>> <=> lastCall.outcome = "rejected"
           /\ lastCall.op = (IF IsCandidates(arg) THEN "addNewEvents" ELSE "addEvents")
           /\ lastCall.outcome = "rejected" =>
                LET parts == Split(lastCall.joined, <<>>) IN
                /\ DOMAIN lastCall.converted = DOMAIN arg
                /\ \A i \in DOMAIN arg :
                      lastCall.converted[i] <=> Issues(Checked(arg[i])) = <<>>
                /\ Len(parts) = Len(failing)
                /\ \A k \in DOMAIN failing :
                      parts[k] = Issues(Checked(arg[failing[k]]))
                /\ lastCall.error = (IF IsCandidates(arg)
                                     THEN "Failed to create events"
                                     ELSE "Failed to convert events to DynamoDB format")

C31_Witness ==
    /\ lastCall.op = "addNewEvents"
    /\ lastCall.outcome = "rejected"
    /\ Len(arg) = 2
    /\ arg[1].subject = ""
    /\ arg[2].type = <<"a">>
    /\ lastCall.joined = <<"subject", "source", "; ", "type">>

\* C32: a page request that fails ends its scan and nothing else: the scan
\* rejects with the error of the store after that one request (the pages before
\* it and the failing one, no retry), makes no further page request, hands out
\* none of the items of the pages before, and leaves the table and its id index
\* as they were; the caller who takes the rejection finds the client at rest,
\* with nothing of the failed scan left for a later query.
C32_FailedPageEndsScan ==
    [][/\ (lastCall'.op = "scan" /\ lastCall.op # "scan") =>
            /\ lastCall'.outcome = "failed"
            /\ lastCall'.error = "store"
            /\ lastCall'.requests = Len(pages) + 1
            /\ lastCall'.returned = <<>>
            /\ pc' = "idle"
            /\ pages' = <<>>
            /\ validItems' = <<>>
            /\ invalidItems' = <<>>
            /\ lastEvaluatedKey' = NoKey
            /\ table' = table
            /\ idIndex' = idIndex
       /\ (lastCall.op = "scan" /\ lastCall'.op # "scan") =>
            /\ AtRest'
            /\ ScanAtRest'
            /\ table' = table
            /\ idIndex' = idIndex]_vars

\* The second page request of a scan failed, after a first page with items.
C32_Witness ==
    /\ lastCall.op = "scan"
    /\ lastCall.outcome = "failed"
    /\ lastCall.requests = 2
    /\ lastCall.query = AllQuery
    /\ Cardinality(table) >= 2
    /\ validItems = <<>>
    /\ invalidItems = <<>>

\* C33: the loop of paginatedQuery ends when the store ends: a scan makes at
\* least one page request, also when nothing matches, every request has a
\* limit of 100, the first has no cursor and each later one has the cursor of
\* the answer before it; the scan goes on exactly while the last answer named a
\* cursor and is through exactly when the last answer named none, so that it
\* makes as many requests as the store gave answers; and a scan that is
\* waiting for a next page does not wait for ever.
C33_LoopEndsWithCursor ==
    /\ [](/\ pc = "idle" <=> pages = <<>>
          /\ \A i \in DOMAIN pages :
                /\ pages[i].Limit = 100
                /\ pages[i].ExclusiveStartKey =
                       (IF i = 1 THEN NoKey ELSE pages[i - 1].LastEvaluatedKey)
                /\ i < Len(pages) => pages[i].LastEvaluatedKey # NoKey
          /\ pc = "paging" <=>
                (pages # <<>> /\ pages[Len(pages)].LastEvaluatedKey # NoKey)
          /\ pc = "done" <=>
                (pages # <<>> /\ pages[Len(pages)].LastEvaluatedKey = NoKey)
          /\ pc = "paging" => lastEvaluatedKey = pages[Len(pages)].LastEvaluatedKey)
    /\ [][Len(pages') <= Len(pages) + 1]_vars
    /\ (pc = "paging" ~> pc # "paging")

\* A scan that is through after three page requests.
C33_Witness ==
    /\ pc = "done"
    /\ Len(pages) = 3
    /\ pages[3].LastEvaluatedKey = NoKey
    /\ Len(validItems) + Len(invalidItems) >= 2

\* C34: fetchEvent does not turn a defect into not-found or into a partial
\* event: when the entry it found in the id index lacks subject or time_type,
\* or when the record under the key of the entry does not parse, the call
\* fails with an error and returns neither null nor the record; a scan whose
\* query matches a record on which a lookup failed in this way is through
\* without an error and has that record among its invalid items, and not
\* among its valid ones.
C34_DefectsSurface ==
    /\ lastCall.op = "fetchEvent" =>
          LET eventKeys == lastCall.eventKeys
              lacks == eventKeys.subject = "" \/ eventKeys.time_type = <<>>
          IN (/\ Entries(lastCall.id) # {}
              /\ \/ lacks
                 \/ \E x \in Stored(table, eventKeys) : ~Parses(x)) =>
                 /\ lastCall.outcome = "error"
                 /\ lastCall.error = (IF lacks THEN MissingKeys ELSE Invalid)
                 /\ lastCall.returned = <<>>
    /\ (previous.op = "fetchEvent" /\ previous.error = Invalid /\ pc = "done") =>
          \A x \in Stored(table, previous.eventKeys) :
              x \in Matches(query, table) =>
                 /\ lastCall = NoCall
                 /\ \E i \in DOMAIN invalidItems : invalidItems[i] = x
                 /\ \A i \in DOMAIN validItems : validItems[i].id # x.id

\* A scan that is through, after a lookup that failed on a record of its result.
C34_Witness ==
    /\ previous.op = "fetchEvent"
    /\ previous.outcome = "error"
    /\ previous.error = Invalid
    /\ pc = "done"
    /\ \E x \in Stored(table, previous.eventKeys) :
          /\ x \in Matches(query, table)
          /\ invalidItems = <<x>>
    /\ \E e \in idIndex : e.subject = ""

\* The name of the value in the result of each function of the codec.
ValueOf(op) ==
    CASE op = "new" -> "event"
      [] op = "toDynamo" -> "dynamoEvent"
      [] op = "fromDynamo" -> "event"

\* C35: a result of the codec is a value or an error: each of new, toDynamo
\* and fromDynamo returns an error and no value, or a value and no error,
\* never both and never neither; fromDynamo returns an error for a record
\* whose time_type or pk_all is missing or does not fit, and for a record
\* whose logical fields fail the schema, and a value for every other record.
C35_ValueOrError ==
    lastCall.op \in {"new", "toDynamo", "fromDynamo"} =>
        LET result == lastCall.result
            hasValue == ValueOf(lastCall.op) \in DOMAIN result
            hasError == result.error
        IN /\ hasValue # hasError
           /\ hasError <=> "message" \in DOMAIN result
           /\ hasError => result.message # <<>>
           /\ lastCall.op = "fromDynamo" =>
                LET item == lastCall.item
                    keys == \/ item.pk_all # "all"
                            \/ item.time_type # DecimalDigits(item.time) \o <<"_">> \o item.type
                    fields == \/ Len(item.id) < 3
                              \/ Len(item.type) < 3
                              \/ Len(item.subject) < 3
                              \/ ~IsUrl(item.source)
                              \/ item.time < 1
                              \/ ~item.data.object
                IN /\ keys => hasError
                   /\ fields => hasError
                   /\ hasError => keys \/ fields

\* fromDynamo turned down a record whose logical fields are fine and whose
\* sort key is missing.
C35_Witness ==
    /\ lastCall.op = "fromDynamo"
    /\ lastCall.result.error
    /\ "event" \notin DOMAIN lastCall.result
    /\ lastCall.item = [SampleItem EXCEPT !.time_type = <<>>]

\* The records that the entries of a list of failures name: for each entry one
\* record of the batch that handle is through with, later entries naming later
\* records.
NamedRecords(failures) ==
    { f \in [DOMAIN failures -> DOMAIN records] :
        /\ \A k \in DOMAIN failures :
              /\ f[k] < position
              /\ failures[k].itemIdentifier = records[f[k]].SequenceNumber
        /\ \A j, k \in DOMAIN failures : j < k => f[j] < f[k] }

\* C36: the failures that handle returns are a subsequence of its batch: while
\* the loop runs and when it is through, each entry names a record of the batch
\* at hand that the loop has been through, by its sequence number, later
\* entries name later records, no record has two entries, and there are no
\* more entries than records; a record for which processRecord throws does
\* not end the loop, which goes on with the next record, and handle returns a
\* response for every batch.
C36_FailuresSubsequence ==
    /\ [](hpc \in {"loop", "done"} =>
             /\ NamedRecords(batchItemFailures) # {}
             /\ Len(batchItemFailures) <= Len(records)
             /\ Len(batchItemFailures) <= Len(attempts))
    /\ [][(hpc = "loop" /\ attempts' # attempts) =>
             /\ hpc' = "loop"
             /\ position' = position + 1
             /\ records' = records
             /\ Len(batchItemFailures') <= Len(batchItemFailures) + 1]_vars
    /\ (hpc = "loop" ~> (hpc = "done" /\ Len(attempts) = Len(records)))

\* handle returned after processRecord threw for both records of its batch.
C36_Witness ==
    /\ hpc = "done"
    /\ Len(records) = 2
    /\ attempts[1].outcome = "threw"
    /\ attempts[2].outcome = "threw"
    /\ batchItemFailures = <<[itemIdentifier |-> SequenceNumbers[1]],
                             [itemIdentifier |-> SequenceNumbers[2]]>>

\* What handle returns for a batch, given how processRecord ended for each of
\* its records: the sequence numbers of the records it threw for, in order.
RECURSIVE FailuresOf(_, _)
FailuresOf(batch, turns) ==
    IF turns = <<>> THEN <<>>
    ELSE LET i == Len(turns)
             before == FailuresOf(batch, SubSeq(turns, 1, i - 1))
         IN IF turns[i].outcome = "threw" /\ batch[i].SequenceNumber # ""
            THEN Append(before, [itemIdentifier |-> batch[i].SequenceNumber])
            ELSE before

\* The publish calls of a batch that the transport accepted, in order.
RECURSIVE PublishedOf(_)
PublishedOf(turns) ==
    IF turns = <<>> THEN <<>>
    ELSE PublishedOf(SubSeq(turns, 1, Len(turns) - 1))
           \o (IF turns[Len(turns)].transport = "accepted"
               THEN turns[Len(turns)].calls ELSE <<>>)

\* The turns of a call are those of its own batch, in order, each with an
\* outcome that processRecord has for the record.
OwnTurns(call) ==
    /\ Len(call.attempts) = call.position - 1
    /\ \A i \in DOMAIN call.attempts :
          /\ call.attempts[i].position = i
          /\ call.attempts[i].record = call.records[i]

\* C37: invocations of handle share nothing that changes: whatever runs at
\* the same time or ran before, the failures of an invocation are those that
\* follow from its own batch and from how the transport answered its own
\* publish calls, and so are its publishes; no failure of another invocation
\* is among them; and the transport has accepted what the invocations
\* published between them, nothing more.
C37_InvocationsIndependent ==
    LET calls == { inflight[n] : n \in { m \in Invocations : inflight[m] # NoCall } }
                   \cup acknowledged
    IN /\ \A call \in calls :
             /\ OwnTurns(call)
             /\ call.batchItemFailures = FailuresOf(call.records, call.attempts)
             /\ call.published = PublishedOf(call.attempts)
             /\ \A k \in DOMAIN call.batchItemFailures :
                   \E i \in DOMAIN call.attempts :
                       /\ call.records[i].SequenceNumber =
                              call.batchItemFailures[k].itemIdentifier
                       /\ call.attempts[i].outcome = "threw"
       /\ topic = UNION { { call.published[k] : k \in DOMAIN call.published } :
                            call \in calls }

\* Two invocations in their loops at the same time, one with a failure and one,
\* past its first record, without.
C37_Witness ==
    /\ inflight[1] # NoCall
    /\ inflight[2] # NoCall
    /\ inflight[1].batchItemFailures # <<>>
    /\ inflight[2].batchItemFailures = <<>>
    /\ inflight[2].attempts # <<>>
    /\ inflight[2].published # <<>>
    /\ inflight[1].position <= Len(inflight[1].records)

====
